---- MODULE Spec2Model ----
(***************************************************************************)
(* Model of the japan-ir-data batch pipeline.                              *)
(*                                                                         *)
(* Part 1: scripts/4_wordpress_smart_update.py, the reconciliation of the  *)
(* integrated dataset against the WordPress snapshot (main,                *)
(* get_all_existing_companies, process_companies, create_company,          *)
(* update_company, unpublish_company).  The WordPress server is the        *)
(* environment: its responses are nondeterministic choices.                *)
(*                                                                         *)
(* Part 2: one call of a fetch function (fetch_stock_data,                 *)
(* fetch_stock_history, AnalystEarningsFetcher.fetch,                      *)
(* FinancialDataFetcher.fetch): the retry loop.  Specification SpecFetch.  *)
(*                                                                         *)
(* Part 3: the batch loop of scripts/2_fetch_yfinance_data.py (main,       *)
(* process_company): batches, worker pool, lock and counters.              *)
(* Specification SpecSched.                                                *)
(***************************************************************************)
EXTENDS Integers, Sequences, FiniteSets, TLC

(* ---------------------------------------------------------------------- *)
(* Bounds of the model                                                     *)
(* ---------------------------------------------------------------------- *)
MaxRows == 1        \* rows of the integrated dataset (registry size)
MaxOrphans == 1     \* further identifiers that can only be in the destination
MaxRuns == 2        \* consecutive runs of the script over unchanged inputs
MaxSkip == 1        \* largest --skip value tried
MaxLimit == 1       \* largest --limit value tried
MaxCodes == 4       \* identifiers in the input of a scheduler run
MaxBatch == 3       \* largest batch size tried (BATCH_SIZE is 50)
MAX_WORKERS == 2    \* threads of the pool (MAX_WORKERS is 3)
PROGRESS_INTERVAL == 2  \* completions between progress lines (it is 20)

(* ---------------------------------------------------------------------- *)
(* Program constants                                                       *)
(* ---------------------------------------------------------------------- *)
per_page == 100         \* get_all_existing_companies: per_page
SafetyOffset == 5000    \* get_all_existing_companies: offset >= 5000 stops

AllCodes == <<"1301", "1332", "1333", "1375", "1376">>
Codes == {AllCodes[i] : i \in 1..(MaxRows + MaxOrphans)}

NaN == -1          \* encodes a missing (NaN) cell of the CSV
NoLimit == -1      \* encodes limit=None
DotT == ".T"

\* ids the server has given to the entries that exist before the first run
JaId(c) == 10 + (CHOOSE i \in 1..Len(AllCodes) : AllCodes[i] = c)
EnId(c) == 20 + (CHOOSE i \in 1..Len(AllCodes) : AllCodes[i] = c)
FirstNewId == 31

VARIABLES
    rows,               \* integrated CSV: sequence of rows (registry order)
    errors_csv,         \* error CSV: [exists, codes]
    dry_run, auto_unpublish, update_only, skip, limit,   \* run configuration
    wp,                 \* server: set of company posts [id, stock_code, status]
    nextId,             \* server: id of the next created post
    existing_companies, \* snapshot: clean code -> [id, slug]
    listing_break,      \* how the snapshot's paging ended: [non200, unfetched]
    df,                 \* rows after skip/limit
    error_codes,        \* set of codes read from the error CSV
    idx,                \* position of the loop in df (1-based)
    stats,              \* the five counters
    pc,                 \* "main", "read", "loop", "done"
    runNo,              \* number of the current run
    acts,               \* per code: the actions taken for it in this run
    counted,            \* per code: counter increments made for it in this run
    requests,           \* requests sent to the destination in this run
    prevCreated         \* codes whose Create succeeded in the previous run

\* state of one call of a fetch function (Part 2)
VARIABLES
    engine,             \* the fetch function that is called
    attempt,            \* loop variable of "for attempt in range(MAX_RETRIES)"
    outcomes,           \* what the provider answered, one entry per call made
    retry_sleeps,       \* number of time.sleep(RETRY_DELAY) performed
    ret,                \* how the call ended: [kind, status, reason]
    fpc                 \* "idle", "try", "sleep", "returned"

fetchVars == <<engine, attempt, outcomes, retry_sleeps, ret, fpc>>

\* state of one run of the batch scheduler (Part 3)
VARIABLES
    stock_codes,        \* identifiers read from the input CSV, in file order
    batch_size,         \* BATCH_SIZE of this run
    result_of,          \* per position: what fetch_stock_data returns for it
    batch_idx,          \* number of the current batch (1-based), 0 before
    task,               \* per position: where its future is
    reg,                \* per position: value read by a "+= 1" not yet stored
    lock,               \* position holding the lock, or 0
    progress_counter,   \* the shared counters total / success / error
    results,            \* the list main appends to
    cooldowns,          \* number of time.sleep(BATCH_DELAY) performed
    slept_after,        \* batches after which main slept
    mpc,                \* main: "idle", "start", "pool", "between", "done"
    progress,           \* main's progress display and the lines it printed
    provider_calls      \* provider requests sent since the last cool-down

schedVars == <<stock_codes, batch_size, result_of, batch_idx, task, reg, lock,
               progress_counter, results, cooldowns, slept_after, mpc,
               progress, provider_calls>>

\* state of the further parts, one record each
VARIABLES
    listing,            \* a paginated listing call (Part 4)
    upd,                \* a run of a per-document updater (Part 5)
    pipe,               \* a run of fetch stage and merge stage (Part 6)
    ma,                 \* a moving-average computation (Part 7)
    store               \* the documents a fetch run writes (Part 8)

laterVars == <<listing, upd, pipe, ma, store>>

pipeline == <<fetchVars, schedVars, laterVars>>

reconcileVars ==
        <<rows, errors_csv, dry_run, auto_unpublish, update_only, skip, limit,
          wp, nextId, existing_companies, listing_break, df, error_codes,
          idx, stats, pc, runNo, acts, counted, requests, prevCreated>>

vars == <<reconcileVars, pipeline>>

config == <<rows, errors_csv, dry_run, auto_unpublish, update_only, skip, limit>>

\* a run of the reconciliation script makes no fetch call and schedules nothing
NoReturn == [kind |-> "none", status |-> "none", reason |-> "none"]
ZeroCounter == [total |-> 0, success |-> 0, error |-> 0]

FetchIdle ==
    /\ engine = "none"
    /\ attempt = 0
    /\ outcomes = <<>>
    /\ retry_sleeps = 0
    /\ ret = NoReturn
    /\ fpc = "idle"

\* main is in the as_completed loop and has printed nothing yet
NoProgress ==
    [at |-> "loop", current_total |-> 0, success |-> 0,
     last_progress_print |-> 0, snapshots |-> <<>>]

SchedIdle ==
    /\ progress = NoProgress
    /\ provider_calls = 0
    /\ stock_codes = <<>>
    /\ batch_size = 1
    /\ result_of = <<>>
    /\ batch_idx = 0
    /\ task = <<>>
    /\ reg = <<>>
    /\ lock = 0
    /\ progress_counter = ZeroCounter
    /\ results = <<>>
    /\ cooldowns = 0
    /\ slept_after = {}
    /\ mpc = "idle"

Idle == [pc |-> "idle"]

LaterIdle ==
    /\ listing = Idle
    /\ upd = Idle
    /\ pipe = Idle
    /\ ma = Idle
    /\ store = Idle

(* ---------------------------------------------------------------------- *)
(* Pure helpers                                                            *)
(* ---------------------------------------------------------------------- *)

\* str(code).replace('.T', ''): every ".T" token is removed
CleanCode(stock_code) == SelectSeq(stock_code, LAMBDA t : t # DotT)

\* str of the CSV code column
Ticker(c) == <<c>>

\* dict assignment d[k] = v (a later assignment overwrites)
DictPut(d, k, v) == (k :> v) @@ d

EmptyDict == [k \in {} |-> 0]

Min(a, b) == IF a < b THEN a ELSE b
Max(a, b) == IF a > b THEN a ELSE b

\* the posts of the server in listing order (ascending id)
RECURSIVE SortById(_)
SortById(S) ==
    IF S = {} THEN <<>>
    ELSE LET p == CHOOSE q \in S : \A r \in S : q.id <= r.id
         IN  <<p>> \o SortById(S \ {p})

\* The entries of a listing page: the listing holds `ahead` entries of other
\* codes followed by the posts of the modelled codes.
PageLen(ahead, posts, offset) ==
    Min(per_page, Max(0, ahead + Len(posts) - offset))

RECURSIVE AddCompanies(_, _)
AddCompanies(existing, page) ==
    IF page = <<>> THEN existing
    ELSE LET company == Head(page)
             clean_code == CleanCode(company.stock_code)
         IN  AddCompanies(
                 IF company.stock_code # <<>>
                 THEN DictPut(existing, clean_code,
                              [id |-> company.id, slug |-> company.slug])
                 ELSE existing,
                 Tail(page))

\* get_all_existing_companies: the paging loop `while True`.  Request k
\* (k = 1, 2, ...) asks for offset (k-1)*per_page.  failPage is the number of
\* the request the server answers with a non-200 status (0: none).
OffsetOf(k) == (k - 1) * per_page

\* a loop that goes on to the next checks after a non-200 answer
BreakNon200_Never(failPage, k) == FALSE

\* the four `break`s of the loop body, for request k
BreakNon200(failPage, k) == failPage = k
BreakEmpty(ahead, posts, k) == PageLen(ahead, posts, OffsetOf(k)) = 0
BreakShort(ahead, posts, k) == PageLen(ahead, posts, OffsetOf(k)) < per_page
BreakSafety(k) == OffsetOf(k) + per_page >= SafetyOffset

Breaks(ahead, posts, failPage, k) ==
    \/ BreakNon200(failPage, k)
    \/ BreakEmpty(ahead, posts, k)
    \/ BreakShort(ahead, posts, k)
    \/ BreakSafety(k)

\* the request at which the loop is left: the first one where a break fires
LastRequest(ahead, posts, failPage) ==
    LET K == 1..(SafetyOffset \div per_page + 1)
    IN  CHOOSE k \in K :
            /\ Breaks(ahead, posts, failPage, k)
            /\ \A j \in 1..(k - 1) : ~Breaks(ahead, posts, failPage, j)

\* the last request whose page was stored before the loop was left
LastStored(ahead, posts, failPage) ==
    LET k == LastRequest(ahead, posts, failPage)
    IN  IF BreakNon200(failPage, k) \/ BreakEmpty(ahead, posts, k)
        THEN k - 1 ELSE k

\* the paging was left by `if response.status_code != 200: break` at
\* request non200 (0: it was not), with the codes of `unfetched` on the
\* pages from that request on
NoBreak == [non200 |-> 0, unfetched |-> {}]

Non200Break(ahead, posts, failPage) ==
    IF /\ failPage # 0
       /\ \A j \in 1..(failPage - 1) :
             ~(\/ BreakEmpty(ahead, posts, j)
               \/ BreakShort(ahead, posts, j)
               \/ BreakSafety(j))
    THEN [non200 |-> failPage,
          unfetched |-> {Head(posts[i].stock_code) :
                            i \in {j \in 1..Len(posts) :
                                     ahead + j - 1 >= OffsetOf(failPage)}}]
    ELSE NoBreak

get_all_existing_companies(ahead, posts, failPage) ==
    LET n == LastStored(ahead, posts, failPage)
        lo == Max(1, 1 - ahead)
        hi == Min(Len(posts), OffsetOf(n) + per_page - ahead)
        listed == IF n = 0 \/ hi < lo THEN <<>> ELSE SubSeq(posts, lo, hi)
    IN  [existing |-> AddCompanies(EmptyDict, listed),
         requests |-> LastRequest(ahead, posts, failPage)]

\* df.iloc[skip:] if skip > 0; df.iloc[:limit] if limit (None and 0 are falsy)
Drop(s, n) == IF n >= Len(s) THEN <<>> ELSE SubSeq(s, n + 1, Len(s))
Take(s, n) == IF n >= Len(s) THEN s ELSE SubSeq(s, 1, n)

SliceRows(all, sk, lim) ==
    LET d1 == IF sk > 0 THEN Drop(all, sk) ELSE all
    IN  IF lim # NoLimit /\ lim # 0 THEN Take(d1, lim) ELSE d1

\* has_yfinance_data = notna(currentPrice) or notna(marketCap)
has_yfinance_data(row) == row.currentPrice # NaN \/ row.marketCap # NaN

is_in_wordpress(ticker) == ticker \in DOMAIN existing_companies

ZeroStats == [created |-> 0, updated |-> 0, skipped |-> 0,
              unpublished |-> 0, failed |-> 0]

Bump(s, k) == [s EXCEPT ![k] = @ + 1]

(* ---------------------------------------------------------------------- *)
(* Destination calls                                                       *)
(* ---------------------------------------------------------------------- *)
Responses == {200, 201, 500}    \* HTTP status of a write; 500 also stands
                                \* for a transport exception (returns False)
CreateStatus == "publish"       \* process_companies: create_status default

Req(kind, code, target) == [kind |-> kind, code |-> code, target |-> target]

\* create_company without the dry-run test
create_company_NoDryRunTest(code, dry, resp) ==
    [ret |-> (resp = 201), sent |-> {Req("create", code, 0)}]

\* create_company whose dry-run preview falls off the end (returns None)
create_company_DryReturnsNone(code, dry, resp) ==
    IF dry
    THEN [ret |-> FALSE, sent |-> {}]
    ELSE [ret |-> (resp = 201), sent |-> {Req("create", code, 0)}]

\* create_company: return value and requests sent
create_company(code, dry, resp) ==
    IF dry
    THEN [ret |-> TRUE, sent |-> {}]
    ELSE [ret |-> (resp = 201), sent |-> {Req("create", code, 0)}]

\* update_single_post: one POST to the post, success iff status 200
update_single_post(code, post_id, resp) ==
    [ret |-> (resp = 200), sent |-> {Req("update", code, post_id)}]

\* update_company that gives up after a failed primary-locale update
update_company_StopsEarly(code, post_id, dry, en_post_id, resp_ja, resp_en) ==
    IF dry
    THEN [ret |-> TRUE, sent |-> {Req("get_translation", code, 0)}]
    ELSE LET ja == update_single_post(code, post_id, resp_ja)
             en == IF en_post_id # 0 /\ ja.ret
                   THEN update_single_post(code, en_post_id, resp_en)
                   ELSE [ret |-> TRUE, sent |-> {}]
         IN  [ret |-> (ja.ret /\ en.ret),
              sent |-> ja.sent \cup {Req("get_translation", code, 0)}
                              \cup en.sent]

\* update_company: en_post_id is the answer of get_translation_by_ticker
\* (0 stands for None)
update_company(code, post_id, dry, en_post_id, resp_ja, resp_en) ==
    IF dry
    THEN [ret |-> TRUE, sent |-> {Req("get_translation", code, 0)}]
    ELSE LET ja == update_single_post(code, post_id, resp_ja)
             en == IF en_post_id # 0
                   THEN update_single_post(code, en_post_id, resp_en)
                   ELSE [ret |-> TRUE, sent |-> {}]
         IN  [ret |-> (ja.ret /\ en.ret),
              sent |-> ja.sent \cup {Req("get_translation", code, 0)}
                              \cup en.sent]

\* unpublish_company: one POST setting status draft
unpublish_company(code, post_id, dry, resp) ==
    IF dry
    THEN [ret |-> TRUE, sent |-> {}]
    ELSE [ret |-> (resp = 200), sent |-> {Req("set_status", code, post_id)}]

WriteKinds == {"create", "update", "set_status"}

(* ---------------------------------------------------------------------- *)
(* Initial state                                                           *)
(* ---------------------------------------------------------------------- *)
RowData == {<<NaN, NaN>>, <<1, NaN>>, <<NaN, 1>>}

MkRow(c, d) == [code |-> c, currentPrice |-> d[1], marketCap |-> d[2]]

\* posts present before the first run expose stock_code with the ".T" suffix
LegacyPost(c) == [id |-> JaId(c), stock_code |-> <<c, DotT>>, slug |-> c,
                  status |-> "publish"]

\* a post created by create_company: stock_code is the Ticker meta as sent
NewPost(id, c) == [id |-> id, stock_code |-> <<c>>, slug |-> c,
                   status |-> CreateStatus]

Init ==
    /\ \E n \in 0..MaxRows :
         \E d \in [1..n -> RowData] :
            rows = [i \in 1..n |-> MkRow(AllCodes[i], d[i])]
    /\ \E S \in SUBSET {rows[i].code : i \in 1..Len(rows)} :
         errors_csv \in {[exists |-> TRUE, codes |-> S],
                         [exists |-> FALSE, codes |-> {}]}
    /\ dry_run \in BOOLEAN
    /\ auto_unpublish \in BOOLEAN
    /\ update_only \in BOOLEAN
    /\ skip \in 0..MaxSkip
    /\ limit \in {NoLimit} \cup 0..MaxLimit
    /\ \E S \in SUBSET Codes : wp = {LegacyPost(c) : c \in S}
    /\ nextId = FirstNewId
    /\ existing_companies = EmptyDict
    /\ listing_break = NoBreak
    /\ df = <<>>
    /\ error_codes = {}
    /\ idx = 1
    /\ stats = ZeroStats
    /\ pc = "main"
    /\ runNo = 1
    /\ acts = [c \in Codes |-> <<>>]
    /\ counted = [c \in Codes |-> 0]
    /\ requests = {}
    /\ prevCreated = {}
    /\ FetchIdle
    /\ SchedIdle
    /\ LaterIdle

(* ---------------------------------------------------------------------- *)
(* main: snapshot of the destination, taken once before processing         *)
(* ---------------------------------------------------------------------- *)
AheadCounts == {0, per_page - 1, SafetyOffset - 1, SafetyOffset}
FailPages == {0, 1, 2}

MainGetExisting ==
    /\ pc = "main"
    /\ \E ahead \in AheadCounts, failPage \in FailPages :
         /\ existing_companies' =
               get_all_existing_companies(ahead, SortById(wp),
                                          failPage).existing
         /\ listing_break' = Non200Break(ahead, SortById(wp), failPage)
    /\ pc' = "read"
    /\ UNCHANGED <<config, pipeline, wp, nextId, df, error_codes, idx, stats, runNo,
                   acts, counted, requests, prevCreated>>

\* process_companies, up to the loop: read the CSVs, slice, zero the stats
ReadInputs ==
    /\ pc = "read"
    /\ df' = SliceRows(rows, skip, limit)
    /\ error_codes' = IF errors_csv.exists THEN errors_csv.codes ELSE {}
    /\ stats' = ZeroStats
    /\ idx' = 1
    /\ pc' = "loop"
    /\ UNCHANGED <<config, pipeline, listing_break, wp, nextId, existing_companies, runNo, acts,
                   counted, requests, prevCreated>>

(* ---------------------------------------------------------------------- *)
(* process_companies: one iteration of the loop over df                    *)
(* ---------------------------------------------------------------------- *)
Row == df[idx]

InLoop == pc = "loop" /\ idx <= Len(df)

\* Cond1 with the destination test forgotten
Cond1_NoDestinationTest(row) == has_yfinance_data(row)

\* the conditions of the if / elif chain of the loop body
Cond1(row) == has_yfinance_data(row) /\ ~is_in_wordpress(Ticker(row.code))

Cond2(row) == has_yfinance_data(row) /\ is_in_wordpress(Ticker(row.code))

Cond3(row) == row.code \in error_codes /\ ~is_in_wordpress(Ticker(row.code))

Cond4(row) == row.code \in error_codes /\ is_in_wordpress(Ticker(row.code))

\* the post id looked up under another key of the snapshot, if there is one
PostIdOf_OtherKey(code) ==
    LET others == DOMAIN existing_companies \ {Ticker(code)}
    IN  IF others # {}
        THEN existing_companies[CHOOSE k \in others : TRUE].id
        ELSE existing_companies[Ticker(code)].id

\* post_id = existing_companies[ticker]['id']
PostIdOf(code) == existing_companies[Ticker(code)].id

\* what one iteration does: the action taken, the result of its destination
\* call, the post id it was given, the counter incremented, the requests sent
Outcome(tag, ok, id, counter, sent) ==
    [tag |-> tag, ok |-> ok, id |-> id, counter |-> counter, sent |-> sent]

NoOutcome == Outcome("None", TRUE, 0, "none", {})

\* condition 1 with --update-only not honoured
Branch1_IgnoresUpdateOnly(row, dry, uo, resp) ==
    LET r == create_company(row.code, dry, resp)
    IN  Outcome("Create", r.ret, 0,
                IF r.ret THEN "created" ELSE "failed", r.sent)

\* condition 1: create, or skip under --update-only
Branch1(row, dry, uo, resp) ==
    IF uo
    THEN Outcome("Skip", TRUE, 0, "skipped", {})
    ELSE LET r == create_company(row.code, dry, resp)
         IN  Outcome("Create", r.ret, 0,
                     IF r.ret THEN "created" ELSE "failed", r.sent)

\* condition 2: update
Branch2(row, dry, en, resp, resp_en) ==
    LET post_id == PostIdOf(row.code)
        r == update_company(row.code, post_id, dry, en, resp, resp_en)
    IN  Outcome("Update", r.ret, post_id,
                IF r.ret THEN "updated" ELSE "failed", r.sent)

\* condition 3: silent skip
Branch3(row) == Outcome("Skip", TRUE, 0, "skipped", {})

\* condition 4: unpublish under --auto-unpublish, else skip with a warning
Branch4(row, dry, au, resp) ==
    IF au
    THEN LET post_id == PostIdOf(row.code)
             r == unpublish_company(row.code, post_id, dry, resp)
         IN  Outcome("Unpublish", r.ret, post_id,
                     IF r.ret THEN "unpublished" ELSE "failed", r.sent)
    ELSE Outcome("SkipWarn", TRUE, 0, "skipped", {})

\* the chain with the unpublish condition tested first
Body_UnpublishFirst(row, dry, uo, au, en, resp, resp_en) ==
    IF Cond4(row) THEN Branch4(row, dry, au, resp)
    ELSE IF Cond1(row) THEN Branch1(row, dry, uo, resp)
    ELSE IF Cond2(row) THEN Branch2(row, dry, en, resp, resp_en)
    ELSE IF Cond3(row) THEN Branch3(row)
    ELSE NoOutcome

\* the loop body for one row; en, resp, resp_en are the server's answers
Body(row, dry, uo, au, en, resp, resp_en) ==
    IF Cond1(row) THEN Branch1(row, dry, uo, resp)
    ELSE IF Cond2(row) THEN Branch2(row, dry, en, resp, resp_en)
    ELSE IF Cond3(row) THEN Branch3(row)
    ELSE IF Cond4(row) THEN Branch4(row, dry, au, resp)
    ELSE NoOutcome

Act(o) == [tag |-> o.tag, ok |-> o.ok, id |-> o.id, counter |-> o.counter]

\* bookkeeping in which a failed call ends the loop
Step_AbortsOnFailure(code, o) ==
    /\ acts' = [acts EXCEPT ![code] = Append(@, Act(o))]
    /\ stats' = Bump(stats, o.counter)
    /\ counted' = [counted EXCEPT ![code] = @ + 1]
    /\ requests' = requests \cup o.sent
    /\ idx' = IF o.ok THEN idx + 1 ELSE Len(df) + 1
    /\ existing_companies' = existing_companies

\* bookkeeping in which a created post is entered into the snapshot
Step_RefreshesSnapshot(code, o) ==
    /\ acts' = [acts EXCEPT ![code] = Append(@, Act(o))]
    /\ stats' = Bump(stats, o.counter)
    /\ counted' = [counted EXCEPT ![code] = @ + 1]
    /\ requests' = requests \cup o.sent
    /\ idx' = idx + 1
    /\ existing_companies' =
          IF o.tag = "Create" /\ o.ok /\ ~dry_run
          THEN DictPut(existing_companies, Ticker(code),
                       [id |-> nextId, slug |-> code])
          ELSE existing_companies

\* bookkeeping of an iteration that took a branch; the snapshot passed to
\* process_companies is only read
Step(code, o) ==
    /\ acts' = [acts EXCEPT ![code] = Append(@, Act(o))]
    /\ stats' = Bump(stats, o.counter)
    /\ counted' = [counted EXCEPT ![code] = @ + 1]
    /\ requests' = requests \cup o.sent
    /\ idx' = idx + 1
    /\ existing_companies' = existing_companies

\* condition 1 under --update-only: skipped, continue
CreateSkippedUpdateOnly ==
    /\ InLoop /\ Cond1(Row) /\ update_only
    /\ Step(Row.code, Body(Row, dry_run, update_only, auto_unpublish, 0, 200, 200))
    /\ UNCHANGED <<config, pipeline, listing_break, wp, nextId, df, error_codes,
                   pc, runNo, prevCreated>>

\* condition 1: create
DoCreate ==
    /\ InLoop /\ Cond1(Row) /\ ~update_only
    /\ \E resp \in Responses :
         LET o == Body(Row, dry_run, update_only, auto_unpublish, 0, resp, resp)
         IN  /\ Step(Row.code, o)
             /\ IF ~dry_run /\ resp = 201
                THEN /\ wp' = wp \cup {NewPost(nextId, Row.code)}
                     /\ nextId' = nextId + 1
                ELSE UNCHANGED <<wp, nextId>>
    /\ UNCHANGED <<config, pipeline, listing_break, df, error_codes, pc, runNo,
                   prevCreated>>

\* condition 2: update (primary locale, then the translation if one exists)
DoUpdate ==
    /\ InLoop /\ ~Cond1(Row) /\ Cond2(Row)
    /\ \E en \in {0, EnId(Row.code)}, resp \in Responses, resp_en \in Responses :
         Step(Row.code,
              Body(Row, dry_run, update_only, auto_unpublish, en, resp, resp_en))
    /\ UNCHANGED <<config, pipeline, listing_break, wp, nextId, df, error_codes,
                   pc, runNo, prevCreated>>

\* condition 3: silent skip
DoSkipSilent ==
    /\ InLoop /\ ~Cond1(Row) /\ ~Cond2(Row) /\ Cond3(Row)
    /\ Step(Row.code, Body(Row, dry_run, update_only, auto_unpublish, 0, 200, 200))
    /\ UNCHANGED <<config, pipeline, listing_break, wp, nextId, df, error_codes,
                   pc, runNo, prevCreated>>

\* condition 4 with --auto-unpublish: set the post to draft
DoUnpublish ==
    /\ InLoop /\ ~Cond1(Row) /\ ~Cond2(Row) /\ ~Cond3(Row) /\ Cond4(Row)
    /\ auto_unpublish
    /\ \E resp \in Responses :
         LET o == Body(Row, dry_run, update_only, auto_unpublish, 0, resp, resp)
         IN  /\ Step(Row.code, o)
             /\ IF ~dry_run /\ resp = 200
                THEN wp' = {IF p.id = o.id
                            THEN [p EXCEPT !.status = "draft"] ELSE p : p \in wp}
                ELSE UNCHANGED wp
    /\ UNCHANGED <<config, pipeline, listing_break, nextId, df, error_codes, pc,
                   runNo, prevCreated>>

\* condition 4 without --auto-unpublish: skip with a warning
DoSkipWarn ==
    /\ InLoop /\ ~Cond1(Row) /\ ~Cond2(Row) /\ ~Cond3(Row) /\ Cond4(Row)
    /\ ~auto_unpublish
    /\ Step(Row.code, Body(Row, dry_run, update_only, auto_unpublish, 0, 200, 200))
    /\ UNCHANGED <<config, pipeline, listing_break, wp, nextId, df, error_codes,
                   pc, runNo, prevCreated>>

\* no branch of the chain matches: the body does nothing for the row
NoBranch ==
    /\ InLoop
    /\ ~Cond1(Row) /\ ~Cond2(Row) /\ ~Cond3(Row) /\ ~Cond4(Row)
    /\ idx' = idx + 1
    /\ UNCHANGED <<config, pipeline, listing_break, wp, nextId, existing_companies, df, error_codes,
                   stats, pc, runNo, acts, counted, requests, prevCreated>>

\* the loop is exhausted: print the summary and return stats
ReturnStats ==
    /\ pc = "loop" /\ idx > Len(df)
    /\ pc' = "done"
    /\ UNCHANGED <<config, pipeline, listing_break, wp, nextId, existing_companies, df, error_codes,
                   idx, stats, runNo, acts, counted, requests, prevCreated>>

\* codes whose Create was sent and succeeded in the run that just ended
CreatedOk ==
    {c \in Codes : ~dry_run /\ \E i \in 1..Len(acts[c]) :
                        acts[c][i].tag = "Create" /\ acts[c][i].ok}

\* the periodic batch run starts again over unchanged inputs
Rerun ==
    /\ pc = "done" /\ runNo < MaxRuns
    /\ runNo' = runNo + 1
    /\ prevCreated' = CreatedOk
    /\ pc' = "main"
    /\ existing_companies' = EmptyDict
    /\ listing_break' = NoBreak
    /\ df' = <<>>
    /\ error_codes' = {}
    /\ idx' = 1
    /\ stats' = ZeroStats
    /\ acts' = [c \in Codes |-> <<>>]
    /\ counted' = [c \in Codes |-> 0]
    /\ requests' = {}
    /\ UNCHANGED <<config, pipeline, listing_break, wp, nextId>>

Next ==
    \/ MainGetExisting
    \/ ReadInputs
    \/ CreateSkippedUpdateOnly
    \/ DoCreate
    \/ DoUpdate
    \/ DoSkipSilent
    \/ DoUnpublish
    \/ DoSkipWarn
    \/ NoBranch
    \/ ReturnStats

\* one run of the script
Spec == Init /\ [][Next]_vars

\* the script run periodically over unchanged registry and fetch inputs
NextRerun == Next \/ Rerun

SpecRerun == Init /\ [][NextRerun]_vars

TypeOK ==
    /\ pc \in {"main", "read", "loop", "done"}
    /\ runNo \in 1..MaxRuns
    /\ \A k \in DOMAIN stats : stats[k] \in 0..MaxRows

(* ---------------------------------------------------------------------- *)
(* Vocabulary of the properties                                            *)
(* ---------------------------------------------------------------------- *)
RegistryCodes == {rows[i].code : i \in 1..Len(rows)}
ProcessedCodes == {df[i].code : i \in 1..Len(df)}

\* row i of df has been through the loop body
Handled(i) == pc \in {"loop", "done"} /\ i \in 1..Len(df) /\ i < idx

\* the fetch of the row's identifier succeeded: the merge kept its fields
FetchSucceeded(row) == row.currentPrice # NaN \/ row.marketCap # NaN

InSnapshot(c) == Ticker(c) \in DOMAIN existing_companies
SnapshotCodes == {c \in Codes : InSnapshot(c)}
DestinationOnly == SnapshotCodes \ RegistryCodes

InErrorList(c) == errors_csv.exists /\ c \in errors_csv.codes

Tags(c) == [i \in 1..Len(acts[c]) |-> acts[c][i].tag]
RequestsFor(c) == {r \in requests : r.code = c}
WritesFor(c) == {r \in requests : r.code = c /\ r.kind \in WriteKinds}

StatsSum == stats.created + stats.updated + stats.skipped
            + stats.unpublished + stats.failed

(* ---------------------------------------------------------------------- *)
(* C1 - C2: totality of the classification and the counters                *)
(* ---------------------------------------------------------------------- *)

\* C1 (registry part): when process_companies returns, every identifier it
\* processed has been given exactly one action, never zero and never two.
C1_ExactlyOneAction ==
    pc = "done" => \A c \in ProcessedCodes : Len(acts[c]) = 1

\* C2: when process_companies returns, the five counters sum to the number
\* of identifiers processed and each processed identifier has incremented
\* exactly one counter.
C2_StatsPartition ==
    pc = "done" =>
        /\ StatsSum = Len(df)
        /\ \A c \in ProcessedCodes : counted[c] = 1

(* ---------------------------------------------------------------------- *)
(* C3 - C5: the rows of the decision table                                 *)
(* ---------------------------------------------------------------------- *)

\* C3: with update-only off, a processed identifier whose fetch succeeded
\* gets Create iff it is absent from the snapshot and Update, with the
\* snapshot's post id, iff it is present; never both, never Unpublish, and
\* the requests sent for it are of the matching kind only.
C3_SuccessCreateOrUpdate ==
    \A i \in 1..Len(df) :
        (Handled(i) /\ FetchSucceeded(df[i]) /\ ~update_only) =>
            LET c == df[i].code
            IN  /\ Len(acts[c]) = 1
                /\ IF InSnapshot(c)
                   THEN /\ acts[c][1].tag = "Update"
                        /\ acts[c][1].id = existing_companies[Ticker(c)].id
                        /\ \A r \in WritesFor(c) :
                              /\ r.kind = "update"
                              /\ r.target \in {existing_companies[Ticker(c)].id,
                                               EnId(c)}
                        /\ (~dry_run =>
                              Req("update", c, existing_companies[Ticker(c)].id)
                                  \in requests)
                   ELSE /\ acts[c][1].tag = "Create"
                        /\ \A r \in WritesFor(c) : r.kind = "create"
                        /\ (~dry_run => Req("create", c, 0) \in requests)

C3_Witness ==
    /\ pc = "done" /\ ~dry_run /\ ~update_only
    /\ \E i \in 1..Len(df) :
          /\ FetchSucceeded(df[i]) /\ InSnapshot(df[i].code)
          /\ Tags(df[i].code) = <<"Update">>
          /\ \E r \in requests : r.kind = "update" /\ r.code = df[i].code

\* C4: a processed identifier whose fetch failed and which is in the
\* snapshot gets Unpublish when auto_unpublish is on, and otherwise the
\* warning Skip with no write sent; with auto_unpublish off no Unpublish is
\* issued at all.
C4_FailedInDestination ==
    /\ \A i \in 1..Len(df) :
          (Handled(i) /\ ~FetchSucceeded(df[i]) /\ InSnapshot(df[i].code)) =>
              LET c == df[i].code
              IN  IF auto_unpublish
                  THEN Tags(c) = <<"Unpublish">>
                  ELSE Tags(c) = <<"SkipWarn">> /\ WritesFor(c) = {}
    /\ (~auto_unpublish =>
          \A c \in Codes : \A i \in 1..Len(acts[c]) :
              acts[c][i].tag # "Unpublish")

\* C5: a processed identifier whose fetch failed and which is absent from
\* the snapshot gets the silent Skip: skipped is incremented once for it and
\* no request is sent for it.
C5_FailedAbsentSkipped ==
    \A i \in 1..Len(df) :
        (Handled(i) /\ ~FetchSucceeded(df[i]) /\ ~InSnapshot(df[i].code)) =>
            LET c == df[i].code
            IN  /\ Tags(c) = <<"Skip">>
                /\ acts[c][1].counter = "skipped"
                /\ counted[c] = 1
                /\ RequestsFor(c) = {}

(* ---------------------------------------------------------------------- *)
(* C6: identifiers that are only in the destination                        *)
(* ---------------------------------------------------------------------- *)

C7_NoSecondCreate ==
    \A c \in prevCreated :
        \A i \in 1..Len(acts[c]) : acts[c][i].tag # "Create"

(* ---------------------------------------------------------------------- *)
(* C8 - C10: the run modes                                                 *)
(* ---------------------------------------------------------------------- *)

\* C8: in dry-run mode no create, update or set-status request is sent,
\* and the posts of the destination stay as they were.
C8_DryRunNoWrites ==
    dry_run =>
        /\ \A r \in requests : r.kind \notin WriteKinds
        /\ nextId = FirstNewId
        /\ \A p \in wp : p.status = "publish"

C8_Witness ==
    /\ pc = "done" /\ dry_run
    /\ \E c \in Codes : Tags(c) \in {<<"Create">>, <<"Update">>, <<"Unpublish">>}

\* the counters of a run over df in the given mode when every destination
\* call succeeds
RECURSIVE ModeStats(_, _, _)
ModeStats(i, dry, uo) ==
    IF i = 0 THEN ZeroStats
    ELSE LET o == Body(df[i], dry, uo, auto_unpublish, 0,
                       IF Cond1(df[i]) THEN 201 ELSE 200, 200)
         IN  IF o.counter = "none" THEN ModeStats(i - 1, dry, uo)
             ELSE Bump(ModeStats(i - 1, dry, uo), o.counter)

\* C9: for the same inputs and flags a dry run and a real run whose
\* destination calls all succeed choose the same action and counter for
\* every identifier, and end with the same counters.
C9_DryRunSameClassification ==
    /\ InLoop =>
          \A en \in {0, EnId(Row.code)}, resp \in Responses,
             resp_en \in Responses :
              LET d == Body(Row, TRUE, update_only, auto_unpublish,
                            en, resp, resp_en)
                  r == Body(Row, FALSE, update_only, auto_unpublish,
                            en, resp, resp_en)
              IN  r.ok => /\ d.tag = r.tag
                          /\ d.counter = r.counter
                          /\ d.id = r.id
    /\ (pc = "done" /\ dry_run) =>
          stats = ModeStats(Len(df), FALSE, update_only)
    /\ (pc = "done" /\ ~dry_run /\ stats.failed = 0) =>
          stats = ModeStats(Len(df), TRUE, update_only)

C9_Witness ==
    /\ pc = "done" /\ dry_run
    /\ stats.created + stats.updated + stats.unpublished > 0

\* the action the loop body takes for a row when update_only is off
WithoutUpdateOnly(row) ==
    Body(row, dry_run, FALSE, auto_unpublish, 0, 201, 200)

\* C10: under update_only no Create is issued and no create request is
\* sent; an identifier that would get Create is counted as skipped, and
\* every other identifier gets the action it gets without update_only.
C10_UpdateOnlyNoCreate ==
    update_only =>
        /\ \A c \in Codes : \A i \in 1..Len(acts[c]) :
              acts[c][i].tag # "Create"
        /\ \A r \in requests : r.kind # "create"
        /\ stats.created = 0
        /\ \A i \in 1..Len(df) :
              Handled(i) =>
                  LET c == df[i].code
                      o == WithoutUpdateOnly(df[i])
                  IN  IF o.tag = "Create"
                      THEN Tags(c) = <<"Skip">>
                           /\ acts[c][1].counter = "skipped"
                      ELSE IF o.tag = "None"
                      THEN acts[c] = <<>>
                      ELSE Tags(c) = <<o.tag>>
        /\ (pc = "done" /\ stats.failed = 0) =>
              LET w == ModeStats(Len(df), dry_run, FALSE)
              IN  /\ stats.skipped = w.skipped + w.created
                  /\ stats.updated = w.updated
                  /\ stats.unpublished = w.unpublished

C10_Witness ==
    /\ pc = "done" /\ update_only
    /\ \E i \in 1..Len(df) :
          /\ FetchSucceeded(df[i]) /\ ~InSnapshot(df[i].code)
          /\ Tags(df[i].code) = <<"Skip">>


(* ====================================================================== *)
(* Part 2: the fetch functions                                             *)
(*   fetch_stock_data              scripts/2_fetch_yfinance_data.py        *)
(*   fetch_stock_history           scripts/fetch_stock_history.py          *)
(*   AnalystEarningsFetcher.fetch  scripts/fetch_analyst_earnings.py       *)
(*   FinancialDataFetcher.fetch    scripts/fetch_financials.py             *)
(* The provider (yfinance) is the environment: what it answers to each     *)
(* call is a nondeterministic choice.                                      *)
(* ====================================================================== *)

\* the reconciliation script is not running
ReconcileIdle ==
    /\ rows = <<>>
    /\ errors_csv = [exists |-> FALSE, codes |-> {}]
    /\ dry_run = FALSE
    /\ auto_unpublish = FALSE
    /\ update_only = FALSE
    /\ skip = 0
    /\ limit = NoLimit
    /\ wp = {}
    /\ nextId = FirstNewId
    /\ existing_companies = EmptyDict
    /\ listing_break = NoBreak
    /\ df = <<>>
    /\ error_codes = {}
    /\ idx = 1
    /\ stats = ZeroStats
    /\ pc = "idle"
    /\ runNo = 1
    /\ acts = [c \in Codes |-> <<>>]
    /\ counted = [c \in Codes |-> 0]
    /\ requests = {}
    /\ prevCreated = {}

StockData == "fetch_stock_data"
StockHistory == "fetch_stock_history"
AnalystEarnings == "AnalystEarningsFetcher.fetch"
Financials == "FinancialDataFetcher.fetch"
Engines == {StockData, StockHistory, AnalystEarnings, Financials}

MAX_RETRIES_StockData == 2
MAX_RETRIES_StockHistory == 2
MAX_RETRIES_AnalystEarnings == 3
MAX_RETRIES_Financials == 3

MAX_RETRIES(eng) ==
    CASE eng = StockData -> MAX_RETRIES_StockData
      [] eng = StockHistory -> MAX_RETRIES_StockHistory
      [] eng = AnalystEarnings -> MAX_RETRIES_AnalystEarnings
      [] eng = Financials -> MAX_RETRIES_Financials

\* What one provider call can give:
\*   "ok"       a payload with a positive price or market capitalisation
\*   "invalid"  a payload in which neither of the two is a positive number
\*   "empty"    no usable payload (info empty or of one key, history empty)
\*   otherwise  the call raises an exception with that message
ProviderErrors == {"ConnectionError", "Too Many Requests"}
Payloads == {"ok", "invalid", "empty"}
ProviderAnswers == Payloads \cup ProviderErrors

EmptyMessage(eng) ==
    IF eng = StockData THEN "Empty response" ELSE "Empty response from yfinance"
ValidationMessage == "No valid price or market cap data"

Return(status, reason) ==
    [kind |-> "return", status |-> status, reason |-> reason]
Raise(msg) == [kind |-> "raise", status |-> "none", reason |-> msg]
Retry == [kind |-> "retry", status |-> "none", reason |-> "none"]

TryBlock_ValidationRaises(eng, o) ==
    IF o \in ProviderErrors THEN Raise(o)
    ELSE IF o = "empty" THEN Raise(EmptyMessage(eng))
    ELSE IF o = "invalid" /\ eng = StockData
         THEN Raise(EmptyMessage(eng))
    ELSE Return("success", "none")

\* the body of the try block of one attempt, for the answer o
TryBlock(eng, o) ==
    IF o \in ProviderErrors THEN Raise(o)
    ELSE IF o = "empty"
         THEN IF eng = StockHistory
              THEN Return("error", "none")           \* return None
              ELSE Raise(EmptyMessage(eng))
    ELSE IF o = "invalid" /\ eng = StockData
         THEN Return("error", ValidationMessage)
    ELSE Return("success", "none")

\* "except Exception": every exception the try block raises is one
IsException_Never(msg) == FALSE

IsException(msg) ==
    msg \in ProviderErrors \cup {EmptyMessage(e) : e \in Engines}

\* the except clause sleeps and continues after every attempt
IsLastAttempt_Never(eng, att) == FALSE

\* the negation of "if attempt < MAX_RETRIES - 1"
IsLastAttempt(eng, att) == ~(att < MAX_RETRIES(eng) - 1)

\* the except clause of attempt att, for the exception message msg
ExceptClause(eng, att, msg) ==
    IF ~IsLastAttempt(eng, att) THEN Retry
    ELSE IF eng = StockHistory THEN Return("error", "none")
    ELSE Return("error", msg)

\* one pass through the loop body
Attempt(eng, att, o) ==
    LET t == TryBlock(eng, o)
    IN  IF t.kind = "raise" /\ IsException(t.reason)
        THEN ExceptClause(eng, att, t.reason)
        ELSE t

\* range(MAX_RETRIES)
InRange(eng, att) == att >= 0 /\ att < MAX_RETRIES(eng)

NextAttempt_Same(att) == att

NextAttempt(att) == att + 1

InitFetch ==
    /\ ReconcileIdle
    /\ SchedIdle
    /\ LaterIdle
    /\ engine \in Engines
    /\ attempt = 0
    /\ outcomes = <<>>
    /\ retry_sleeps = 0
    /\ ret = NoReturn
    /\ fpc = "try"

\* an attempt that ends the call with a return statement of the try block
AttemptReturns ==
    /\ fpc = "try"
    /\ InRange(engine, attempt)
    /\ \E o \in ProviderAnswers :
         /\ TryBlock(engine, o).kind = "return"
         /\ outcomes' = Append(outcomes, o)
         /\ ret' = Attempt(engine, attempt, o)
    /\ fpc' = "returned"
    /\ UNCHANGED <<engine, attempt, retry_sleeps, reconcileVars, schedVars, laterVars>>

\* an attempt whose exception is handled by "continue"
AttemptRetries ==
    /\ fpc = "try"
    /\ InRange(engine, attempt)
    /\ \E o \in ProviderAnswers :
         /\ Attempt(engine, attempt, o).kind = "retry"
         /\ outcomes' = Append(outcomes, o)
    /\ fpc' = "sleep"
    /\ UNCHANGED <<engine, attempt, retry_sleeps, ret, reconcileVars,
                   schedVars, laterVars>>

\* an attempt whose exception ends the call
AttemptGivesUp ==
    /\ fpc = "try"
    /\ InRange(engine, attempt)
    /\ \E o \in ProviderAnswers :
         /\ TryBlock(engine, o).kind = "raise"
         /\ Attempt(engine, attempt, o).kind # "retry"
         /\ outcomes' = Append(outcomes, o)
         /\ ret' = Attempt(engine, attempt, o)
    /\ fpc' = "returned"
    /\ UNCHANGED <<engine, attempt, retry_sleeps, reconcileVars, schedVars, laterVars>>

\* time.sleep(RETRY_DELAY); continue
RetryDelay ==
    /\ fpc = "sleep"
    /\ retry_sleeps' = retry_sleeps + 1
    /\ attempt' = NextAttempt(attempt)
    /\ fpc' = "try"
    /\ UNCHANGED <<engine, outcomes, ret, reconcileVars, schedVars, laterVars>>

NextFetch ==
    \/ AttemptReturns
    \/ AttemptRetries
    \/ AttemptGivesUp
    \/ RetryDelay

\* one call of one of the fetch functions
SpecFetch == InitFetch /\ [][NextFetch]_vars

Returned == fpc = "returned"
Calls == Len(outcomes)
LastAnswer == outcomes[Len(outcomes)]

\* the thread that runs the call keeps running: a step that is possible is
\* taken (the provider answers every call, time.sleep returns)
SpecFetchFair == SpecFetch /\ WF_vars(NextFetch)

(* ---------------------------------------------------------------------- *)
(* Claims about the fetch functions                                        *)
(* ---------------------------------------------------------------------- *)

\* C11: whatever the provider answers (a valid payload, an empty payload, an
\* exception, a payload that fails validation), a call of any of the four
\* fetch functions makes at most MAX_RETRIES provider calls, sleeps fewer
\* than MAX_RETRIES times, has returned once the MAX_RETRIES-th call has
\* been answered, and eventually returns.
C11_AtMostMaxRetriesThenReturns ==
    /\ [](/\ Calls <= MAX_RETRIES(engine)
          /\ retry_sleeps < MAX_RETRIES(engine)
          /\ (Calls = MAX_RETRIES(engine) => Returned))
    /\ <>Returned

\* three failing attempts of AnalystEarningsFetcher.fetch, then the return
C11_Witness ==
    /\ Returned
    /\ engine = AnalystEarnings
    /\ Calls = MAX_RETRIES(engine)
    /\ outcomes[1] = "empty"
    /\ outcomes[2] \in ProviderErrors
    /\ ret.status = "error"

\* C12: a call of fetch_stock_data never ends with an exception; it returns a
\* result whose status is "success" exactly when its last provider answer
\* was a valid payload, and otherwise an error result: when the last attempt
\* raised, the result carries the message of that last exception (not of an
\* earlier attempt), and such a result is returned only after MAX_RETRIES
\* failed attempts.
C12_NeverRaisesLastReason ==
    engine = StockData =>
       /\ ret.kind \in {"none", "return"}
       /\ Returned =>
            /\ ret.kind = "return"
            /\ ret.status \in {"success", "error"}
            /\ ret.status = "success" <=> LastAnswer = "ok"
            /\ LastAnswer \in ProviderErrors =>
                  /\ ret.reason = LastAnswer
                  /\ Calls = MAX_RETRIES_StockData
            /\ LastAnswer = "empty" =>
                  /\ ret.reason = "Empty response"
                  /\ Calls = MAX_RETRIES_StockData

\* two attempts that fail for different reasons: the second one is reported
C12_Witness ==
    /\ engine = StockData
    /\ Returned
    /\ outcomes = <<"ConnectionError", "Too Many Requests">>
    /\ ret.status = "error"
    /\ ret.reason = "Too Many Requests"

\* C13: in fetch_stock_data a payload that fails validation ends the call at
\* once: it is the last provider call, the call has returned the validation
\* error, and no retry delay follows it.
C13_ValidationFailureTerminal ==
    engine = StockData =>
       \A i \in 1..Len(outcomes) :
          outcomes[i] = "invalid" =>
             /\ i = Len(outcomes)
             /\ Returned
             /\ ret.kind = "return"
             /\ ret.status = "error"
             /\ ret.reason = "No valid price or market cap data"
             /\ retry_sleeps = i - 1

\* validation fails on the first attempt, with an attempt still unused
C13_Witness ==
    /\ engine = StockData
    /\ outcomes = <<"invalid">>
    /\ Returned
    /\ retry_sleeps = 0
    /\ Calls < MAX_RETRIES_StockData

\* C14: in every fetch function an empty payload on an attempt that is not
\* the last one does not end the call: the retry delay and a further
\* provider call follow it.
C14_EmptyPayloadRetried ==
    \A i \in 1..Len(outcomes) :
       (outcomes[i] = "empty" /\ i < MAX_RETRIES(engine)) =>
          /\ ~(Returned /\ Len(outcomes) = i)
          /\ Len(outcomes) > i => retry_sleeps >= i

(* ====================================================================== *)
(* Part 3: the batch scheduler and the shared counters                     *)
(*   main, process_company of scripts/2_fetch_yfinance_data.py (the same   *)
(*   loop is in fetch_stock_history.py and fetch_analyst_earnings.py).     *)
(* A fetch is one step of its worker thread here; its retries are Part 2.  *)
(* "x += 1" on a counter is a read followed by a write.                    *)
(* ====================================================================== *)

Positions == 1..Len(stock_codes)

\* the slices taken from the end of the list
batches_Reversed ==
    LET n == Len(stock_codes)
        starts == {i \in 0..(n - 1) : i % batch_size = 0}
        cnt == Cardinality(starts)
    IN  [k \in 1..cnt |->
            {p \in 1..n : /\ p > (cnt - k) * batch_size
                          /\ p <= (cnt - k) * batch_size + batch_size}]

\* batches = [stock_codes[i:i + BATCH_SIZE] for i in range(0, len, BATCH_SIZE)]
\* as the sequence of the position ranges of the slices
batches ==
    LET n == Len(stock_codes)
        starts == {i \in 0..(n - 1) : i % batch_size = 0}
    IN  [k \in 1..Cardinality(starts) |->
            {p \in Positions : /\ p > (k - 1) * batch_size
                               /\ p <= (k - 1) * batch_size + batch_size}]

total_batches == Len(batches)

\* positions of the batch the loop is in
batch == IF batch_idx \in 1..total_batches THEN batches[batch_idx] ELSE {}

InLock == {"load_total", "store_total", "load_kind", "store_kind", "release"}
Running == {"fetch", "wait"} \cup InLock

\* futures whose process_company is being run by a thread of the pool
InFlight == {p \in Positions : task[p] \in Running}

HasFreeWorker_Always == TRUE

\* ThreadPoolExecutor(max_workers=MAX_WORKERS)
HasFreeWorker == Cardinality(InFlight) < MAX_WORKERS

LockFree_Always == TRUE

\* threading.Lock: acquire blocks while another thread holds it
LockFree == lock = 0

BatchFinished_NoWait == TRUE

\* the as_completed loop has yielded every future of the batch, and the
\* with block has shut the executor down
BatchFinished == \A p \in batch : task[p] = "collected"

NotLastBatch_Always(k, n) == TRUE

\* if batch_idx < total_batches
NotLastBatch(k, n) == k < n

CounterKey_TotalForErrors(status) ==
    IF status = "success" THEN "success" ELSE "total"

\* the counter process_company increments besides total
CounterKey(status) == IF status = "success" THEN "success" ELSE "error"

ResultsAfter_ErrorsDropped(res, r) ==
    IF r.status = "success" THEN Append(res, r) ELSE res

\* results.append(result)
ResultsAfter(res, r) == Append(res, r)

FetchStatuses == {"success", "error"}

InitSched ==
    /\ ReconcileIdle
    /\ FetchIdle
    /\ LaterIdle
    /\ \E n \in 0..MaxCodes : stock_codes = [i \in 1..n |-> AllCodes[i]]
    /\ batch_size \in 1..MaxBatch
    /\ result_of = [p \in Positions |-> "pending"]
    /\ batch_idx = 0
    /\ task = [p \in Positions |-> "none"]
    /\ reg = [p \in Positions |-> 0]
    /\ lock = 0
    /\ progress_counter = ZeroCounter
    /\ results = <<>>
    /\ cooldowns = 0
    /\ slept_after = {}
    /\ mpc = "start"
    /\ progress = NoProgress
    /\ provider_calls = 0

idleVars == <<reconcileVars, fetchVars, laterVars>>

\* the loop has no batch to run: the input has no identifier
NoBatches ==
    /\ mpc = "start"
    /\ total_batches = 0
    /\ mpc' = "done"
    /\ UNCHANGED <<stock_codes, batch_size, result_of, batch_idx, task, reg,
                   lock, progress_counter, results, cooldowns, slept_after,
                   progress, provider_calls, idleVars>>

\* next pass of "for batch_idx, batch in enumerate(batches, 1)": the pool is
\* created and process_company is submitted for every code of the batch
SubmitBatch ==
    /\ mpc \in {"start", "between"}
    /\ batch_idx < total_batches
    /\ batch_idx' = batch_idx + 1
    /\ task' = [p \in Positions |->
                  IF p \in batches[batch_idx + 1] THEN "queued" ELSE task[p]]
    /\ mpc' = "pool"
    /\ UNCHANGED <<stock_codes, batch_size, result_of, reg, lock,
                   progress_counter, results, cooldowns, slept_after,
                   progress, provider_calls, idleVars>>

\* the whole of process_company inside "with lock": a starting worker
\* takes the lock when it is free
LockAtStart_Taken(p) == IF lock = 0 THEN p ELSE lock

\* process_company calls fetch_stock_data before "with lock": a starting
\* worker leaves the lock as it is
LockAtStart(p) == lock

\* a thread of the pool takes the oldest queued work item
WorkerStart(p) ==
    /\ task[p] = "queued"
    /\ \A q \in Positions : task[q] = "queued" => p <= q
    /\ HasFreeWorker
    /\ task' = [task EXCEPT ![p] = "fetch"]
    /\ lock' = LockAtStart(p)
    /\ UNCHANGED <<stock_codes, batch_size, result_of, batch_idx, reg,
                   progress_counter, results, cooldowns, slept_after, mpc,
                   progress, provider_calls, idleVars>>

\* the loop of fetch_stock_data runs once more than MAX_RETRIES allows
FetchAttempts_OneMore == 1..(MAX_RETRIES(StockData) + 1)

\* for attempt in range(MAX_RETRIES): the provider requests one call of
\* fetch_stock_data can send
FetchAttempts == 1..MAX_RETRIES(StockData)

\* result = fetch_stock_data(code), after some number of provider requests
FetchReturns(p) ==
    /\ task[p] = "fetch"
    /\ \E st \in FetchStatuses : result_of' = [result_of EXCEPT ![p] = st]
    /\ \E n \in FetchAttempts : provider_calls' = provider_calls + n
    /\ task' = [task EXCEPT ![p] = "wait"]
    /\ UNCHANGED <<stock_codes, batch_size, batch_idx, reg, lock,
                   progress_counter, results, cooldowns, slept_after, mpc,
                   progress, idleVars>>

\* with lock:
Acquire(p) ==
    /\ task[p] = "wait"
    /\ LockFree
    /\ lock' = p
    /\ task' = [task EXCEPT ![p] = "load_total"]
    /\ UNCHANGED <<stock_codes, batch_size, result_of, batch_idx, reg,
                   progress_counter, results, cooldowns, slept_after, mpc,
                   progress, provider_calls, idleVars>>

\* progress_counter["total"] += 1, the read
LoadTotal(p) ==
    /\ task[p] = "load_total"
    /\ reg' = [reg EXCEPT ![p] = progress_counter.total]
    /\ task' = [task EXCEPT ![p] = "store_total"]
    /\ UNCHANGED <<stock_codes, batch_size, result_of, batch_idx, lock,
                   progress_counter, results, cooldowns, slept_after, mpc,
                   progress, provider_calls, idleVars>>

\* progress_counter["total"] += 1, the write
StoreTotal(p) ==
    /\ task[p] = "store_total"
    /\ progress_counter' = [progress_counter EXCEPT !.total = reg[p] + 1]
    /\ reg' = [reg EXCEPT ![p] = 0]
    /\ task' = [task EXCEPT ![p] = "load_kind"]
    /\ UNCHANGED <<stock_codes, batch_size, result_of, batch_idx, lock,
                   results, cooldowns, slept_after, mpc, progress,
                   provider_calls, idleVars>>

\* progress_counter["success"] += 1 or progress_counter["error"] += 1: read
LoadKind(p) ==
    /\ task[p] = "load_kind"
    /\ reg' = [reg EXCEPT ![p] = progress_counter[CounterKey(result_of[p])]]
    /\ task' = [task EXCEPT ![p] = "store_kind"]
    /\ UNCHANGED <<stock_codes, batch_size, result_of, batch_idx, lock,
                   progress_counter, results, cooldowns, slept_after, mpc,
                   progress, provider_calls, idleVars>>

\* progress_counter["success"] += 1 or progress_counter["error"] += 1: write
StoreKind(p) ==
    /\ task[p] = "store_kind"
    /\ progress_counter' =
          [progress_counter EXCEPT ![CounterKey(result_of[p])] = reg[p] + 1]
    /\ reg' = [reg EXCEPT ![p] = 0]
    /\ task' = [task EXCEPT ![p] = "release"]
    /\ UNCHANGED <<stock_codes, batch_size, result_of, batch_idx, lock,
                   results, cooldowns, slept_after, mpc, progress,
                   provider_calls, idleVars>>

\* end of the with block, then "return result": the future is done
Release(p) ==
    /\ task[p] = "release"
    /\ lock' = IF lock = p THEN 0 ELSE lock
    /\ task' = [task EXCEPT ![p] = "done"]
    /\ UNCHANGED <<stock_codes, batch_size, result_of, batch_idx, reg,
                   progress_counter, results, cooldowns, slept_after, mpc,
                   progress, provider_calls, idleVars>>

\* if current_total - last_progress_print >= PROGRESS_INTERVAL
\*    or current_total == total
ShouldPrint(current_total, last_progress_print, total) ==
    \/ current_total - last_progress_print >= PROGRESS_INTERVAL
    \/ current_total = total

\* as_completed yields a finished future: results.append(future.result()),
\* then current_total = progress_counter["total"], read without the lock,
\* and the test whether a progress line is due
Collect(p) ==
    /\ mpc = "pool"
    /\ progress.at = "loop"
    /\ task[p] = "done"
    /\ results' = ResultsAfter(results, [code |-> stock_codes[p],
                                         status |-> result_of[p]])
    /\ task' = [task EXCEPT ![p] = "collected"]
    /\ progress' =
          [progress EXCEPT
              !.current_total = progress_counter.total,
              !.at = IF ShouldPrint(progress_counter.total,
                                    progress.last_progress_print,
                                    Len(stock_codes))
                     THEN "success" ELSE "loop"]
    /\ UNCHANGED <<stock_codes, batch_size, result_of, batch_idx, reg, lock,
                   progress_counter, cooldowns, slept_after, mpc,
                   provider_calls, idleVars>>

\* the progress line is formatted: progress_counter['success'] is read
ReadSuccess ==
    /\ mpc = "pool"
    /\ progress.at = "success"
    /\ progress' = [progress EXCEPT !.success = progress_counter.success,
                                    !.at = "error"]
    /\ UNCHANGED <<stock_codes, batch_size, result_of, batch_idx, task, reg,
                   lock, progress_counter, results, cooldowns, slept_after,
                   mpc, provider_calls, idleVars>>

\* progress_counter['error'] is read and the line is printed;
\* last_progress_print = current_total
PrintProgress ==
    /\ mpc = "pool"
    /\ progress.at = "error"
    /\ progress' =
          [progress EXCEPT
              !.snapshots = Append(@, [total |-> progress.current_total,
                                       success |-> progress.success,
                                       error |-> progress_counter.error]),
              !.last_progress_print = progress.current_total,
              !.success = 0,
              !.at = "loop"]
    /\ UNCHANGED <<stock_codes, batch_size, result_of, batch_idx, task, reg,
                   lock, progress_counter, results, cooldowns, slept_after,
                   mpc, provider_calls, idleVars>>

\* time.sleep(BATCH_DELAY) after a batch that is not the last one
CoolDown ==
    /\ mpc = "pool"
    /\ progress.at = "loop"
    /\ BatchFinished
    /\ NotLastBatch(batch_idx, total_batches)
    /\ cooldowns' = cooldowns + 1
    /\ slept_after' = slept_after \cup {batch_idx}
    /\ mpc' = "between"
    /\ provider_calls' = 0
    /\ UNCHANGED <<stock_codes, batch_size, result_of, batch_idx, task, reg,
                   lock, progress_counter, results, progress, idleVars>>

\* the last batch is finished: the loop ends without a sleep
LoopEnds ==
    /\ mpc = "pool"
    /\ progress.at = "loop"
    /\ BatchFinished
    /\ ~NotLastBatch(batch_idx, total_batches)
    /\ mpc' = "done"
    /\ UNCHANGED <<stock_codes, batch_size, result_of, batch_idx, task, reg,
                   lock, progress_counter, results, cooldowns, slept_after,
                   progress, provider_calls, idleVars>>

NextSched ==
    \/ NoBatches
    \/ SubmitBatch
    \/ \E p \in Positions : WorkerStart(p)
    \/ \E p \in Positions : FetchReturns(p)
    \/ \E p \in Positions : Acquire(p)
    \/ \E p \in Positions : LoadTotal(p)
    \/ \E p \in Positions : StoreTotal(p)
    \/ \E p \in Positions : LoadKind(p)
    \/ \E p \in Positions : StoreKind(p)
    \/ \E p \in Positions : Release(p)
    \/ \E p \in Positions : Collect(p)
    \/ ReadSuccess
    \/ PrintProgress
    \/ CoolDown
    \/ LoopEnds

\* one run of the batch loop of main
SpecSched == InitSched /\ [][NextSched]_vars

(* ---------------------------------------------------------------------- *)
(* Vocabulary of the scheduler properties                                  *)
(* ---------------------------------------------------------------------- *)
M == Len(stock_codes)

\* least k with k * b >= m
CeilDiv(m, b) == CHOOSE k \in 0..m : k * b >= m /\ \A j \in 0..(k - 1) : j * b < m

\* number of the batch position p belongs to (input order, batch_size each)
BatchOf(p) == CeilDiv(p, batch_size)

Started(p) == task[p] \in Running \cup {"done", "collected"}
Completed(p) == task[p] \in {"done", "collected"}
SchedDone == mpc = "done"

CompletedSet == {p \in Positions : Completed(p)}
WithStatus(st) == {p \in Positions : result_of[p] = st}
ResultsFor(p) == {k \in 1..Len(results) : results[k].code = stock_codes[p]}

(* ---------------------------------------------------------------------- *)
(* Claims about the scheduler and the counters                             *)
(* ---------------------------------------------------------------------- *)

\* C15 as stated: for every input size M >= 0 and batch size B >= 1 a run
\* of the batch loop has performed exactly ceil(M/B) - 1 cool-downs when
\* it ends.
C15_CoolDownsCeilMinusOne ==
    SchedDone => cooldowns = CeilDiv(M, batch_size) - 1

\* C15 amended: a run never performs more than max(ceil(M/B) - 1, 0)
\* cool-downs and has performed exactly that many when the loop ends:
\* ceil(M/B) - 1 for M >= 1, none for M = 0.
C15_CoolDownsCeilMinusOneOrZero ==
    /\ cooldowns <= Max(CeilDiv(M, batch_size) - 1, 0)
    /\ SchedDone => cooldowns = Max(CeilDiv(M, batch_size) - 1, 0)

\* a finished run with more than two batches
C15_Witness == SchedDone /\ cooldowns >= 2 /\ M > batch_size

\* C16: batches run one after the other.  A fetch of a later batch has
\* started only if every fetch of every earlier batch is complete and the
\* cool-down after each earlier batch has been taken; while main sleeps in
\* a cool-down, or before the first batch, no fetch is in flight; a
\* cool-down is taken once after each batch but never after the last one.
C16_BatchesStrictlySequential ==
    /\ \A q \in Positions : Started(q) =>
          /\ \A p \in Positions : BatchOf(p) < BatchOf(q) => Completed(p)
          /\ \A k \in 1..(BatchOf(q) - 1) : k \in slept_after
    /\ mpc # "pool" => InFlight = {}
    /\ \A k \in slept_after :
          /\ k < CeilDiv(M, batch_size)
          /\ \A p \in Positions : BatchOf(p) <= k => Completed(p)
    /\ cooldowns = Cardinality(slept_after)
    /\ SchedDone => slept_after = 1..(CeilDiv(M, batch_size) - 1)

\* a fetch of the second batch is running, after the first cool-down
C16_Witness ==
    \E q \in Positions :
       /\ BatchOf(q) = 2
       /\ task[q] = "fetch"
       /\ slept_after = {1}
       /\ batch_size >= 2

\* C17: at most MAX_WORKERS fetches are in flight at any time, and all of
\* them belong to the same batch.
C17_AtMostWInFlight ==
    /\ Cardinality(InFlight) <= MAX_WORKERS
    /\ \A p \in InFlight, q \in InFlight : BatchOf(p) = BatchOf(q)

\* the pool is full and a further work item of the batch waits
C17_Witness ==
    /\ Cardinality(InFlight) = MAX_WORKERS
    /\ \E p \in Positions : task[p] = "queued"

\* C18: every completed fetch has incremented total once and one of
\* success / error once: whenever the lock is free, total is the number of
\* completed fetches, success and error are the numbers of completed
\* fetches with that outcome, and total = success + error; inside the
\* critical section total is ahead by at most the one increment in
\* progress; when the loop ends total = M.
C18_CountersExactlyOnce ==
    /\ lock = 0 =>
          /\ progress_counter.total = Cardinality(CompletedSet)
          /\ progress_counter.success =
                Cardinality(CompletedSet \cap WithStatus("success"))
          /\ progress_counter.error =
                Cardinality(CompletedSet \cap WithStatus("error"))
          /\ progress_counter.total =
                progress_counter.success + progress_counter.error
    /\ progress_counter.total - Cardinality(CompletedSet) \in {0, 1}
    /\ SchedDone => lock = 0 /\ progress_counter.total = M

\* a finished run in which fetches of both outcomes were counted
C18_Witness ==
    /\ SchedDone
    /\ M >= 3
    /\ progress_counter.success >= 1
    /\ progress_counter.error >= 1

\* C19: the final success and error counts are determined by the outcomes
\* of the identifiers alone: whatever the interleaving of the workers and
\* the order of completion, they are the numbers of identifiers whose fetch
\* succeeded and failed.
C19_CountsFunctionOfOutcomes ==
    SchedDone =>
       /\ progress_counter.success = Cardinality(WithStatus("success"))
       /\ progress_counter.error = Cardinality(WithStatus("error"))

\* a finished run whose fetches completed in another order than submitted
C19_Witness ==
    /\ SchedDone
    /\ Len(results) >= 2
    /\ results[1].code = stock_codes[2]
    /\ results[1].status = "error"
    /\ results[2].status = "success"

\* C20: the run appends exactly one result per identifier: a collected
\* future has exactly one entry in results, carrying its own identifier and
\* its own outcome, any other identifier has none yet, and when the loop
\* ends every identifier has its entry, whichever fetches failed.
C20_OneResultPerIdentifier ==
    /\ \A p \in Positions :
          /\ Cardinality(ResultsFor(p)) = IF task[p] = "collected" THEN 1 ELSE 0
          /\ \A k \in ResultsFor(p) : results[k].status = result_of[p]
    /\ SchedDone =>
          /\ Len(results) = M
          /\ \A p \in Positions : task[p] = "collected"

\* the first fetch failed; a sibling of its batch and a fetch of the next
\* batch succeeded and the run has ended
C20_Witness ==
    /\ SchedDone
    /\ batch_size = 2
    /\ M >= 3
    /\ result_of[1] = "error"
    /\ result_of[2] = "success"
    /\ result_of[3] = "success"

(* ---------------------------------------------------------------------- *)
(* Claims about the destination calls of the reconciliation (continued)    *)
(* ---------------------------------------------------------------------- *)

\* C21: for the row the loop is about to update, whatever the translation
\* lookup and the two update requests are answered, update_company without
\* dry-run returns True exactly when the primary update got 200 and, if a
\* translation entry was found, its update got 200 too; the translation
\* update is sent whenever an entry was found, also after a failed primary
\* update; and the only writes are one update of the primary post and one
\* of the translation found: nothing else is written or written back.
C21_UpdateAllLocales ==
    (InLoop /\ ~Cond1(Row) /\ Cond2(Row)) =>
       \A en \in {0, EnId(Row.code)}, rj \in Responses, re \in Responses :
          LET post_id == existing_companies[Ticker(Row.code)].id
              r == update_company(Row.code, post_id, FALSE, en, rj, re)
              writes == {q \in r.sent : q.kind \in WriteKinds}
          IN  /\ r.ret <=> (rj = 200 /\ (en # 0 => re = 200))
              /\ en # 0 => [kind |-> "update", code |-> Row.code,
                            target |-> en] \in r.sent
              /\ writes = {[kind |-> "update", code |-> Row.code,
                            target |-> t] : t \in {post_id, en} \ {0}}

\* an Update that was reported failed and whose translation update was sent
C21_Witness ==
    \E c \in Codes :
       /\ ~dry_run
       /\ \E i \in 1..Len(acts[c]) :
             acts[c][i].tag = "Update" /\ ~acts[c][i].ok
       /\ [kind |-> "update", code |-> c, target |-> EnId(c)] \in requests
       /\ [kind |-> "update", code |-> c, target |-> JaId(c)] \in requests

(* ------------------------------------------------------------------ *)
(* Part 4: the paginated listings of the destination, request by       *)
(* request                                                             *)
(*   4_wordpress_smart_update.py get_all_existing_companies            *)
(*   update_financials.py / update_analyst_earnings.py                 *)
(*       get_all_companies                                             *)
(*   fetch_analyst_earnings.py fetch_companies_from_wordpress          *)
(* The server is free to answer every request as it likes.             *)
(* ------------------------------------------------------------------ *)

MaxRequests == 152

MAX_PAGES == 50

GetAllExisting == "get_all_existing_companies"
GetAllCompanies == "get_all_companies"
FetchCompanies == "fetch_companies_from_wordpress"
Listings == {GetAllExisting, GetAllCompanies, FetchCompanies}

\* what a page request can come back with: status 200 with at least
\* per_page entries, with fewer, with none; status 400; another status;
\* an exception of the transport
ListAnswers == {"full", "short", "empty", "400", "500", "exception"}

ListStart(fn) ==
    [pc |-> "request", fn |-> fn, offset |-> 0, attempt |-> 1,
     requests |-> 0, pages |-> 0]

\* the safety device of the while True loops never trips
SafetyReached_Never(offset) == FALSE

\* if offset >= 5000: break
SafetyReached(offset) == offset >= SafetyOffset

\* the function is over: it returned its collection or let the exception out
ListEnd(l, how) == [l EXCEPT !.pc = how]

\* a non-empty page has been stored
ListStored(l) == [l EXCEPT !.pages = @ + 1]

\* one request of get_all_existing_companies and what the loop does with
\* the answer; requests.get is not inside a try block there
OnAnswerExisting(l, ans) ==
    CASE ans = "exception" -> ListEnd(l, "raised")
      [] ans \in {"400", "500"} -> ListEnd(l, "returned")
      [] ans = "empty" -> ListEnd(l, "returned")
      [] ans = "short" -> ListEnd(ListStored(l), "returned")
      [] ans = "full" ->
            IF SafetyReached(l.offset + per_page)
            THEN ListEnd([ListStored(l) EXCEPT !.offset = @ + per_page],
                         "returned")
            ELSE [ListStored(l) EXCEPT !.offset = @ + per_page]

\* the same loop in get_all_companies, where an exception breaks the loop
OnAnswerCompanies(l, ans) ==
    IF ans = "exception" THEN ListEnd(l, "returned")
                         ELSE OnAnswerExisting(l, ans)

\* fetch_companies_from_wordpress: while offset < MAX_PAGES * per_page, up
\* to MAX_RETRIES attempts for the page; the break after the last failed
\* attempt leaves the for loop only, and the while loop asks for the same
\* offset again
OnAnswerFetch(l, ans) ==
    CASE ans \in {"full", "short"} ->
            IF l.offset + per_page < MAX_PAGES * per_page
            THEN [ListStored(l) EXCEPT !.offset = @ + per_page,
                                       !.attempt = 1]
            ELSE ListEnd([ListStored(l) EXCEPT !.offset = @ + per_page],
                         "returned")
      [] ans \in {"empty", "400"} -> ListEnd(l, "returned")
      [] ans \in {"500", "exception"} ->
            IF l.attempt < MAX_RETRIES_AnalystEarnings
            THEN [l EXCEPT !.attempt = @ + 1]
            ELSE [l EXCEPT !.attempt = 1]

OnAnswer(l, ans) ==
    CASE l.fn = GetAllExisting -> OnAnswerExisting(l, ans)
      [] l.fn = GetAllCompanies -> OnAnswerCompanies(l, ans)
      [] l.fn = FetchCompanies -> OnAnswerFetch(l, ans)

InitList ==
    /\ ReconcileIdle
    /\ FetchIdle
    /\ SchedIdle
    /\ upd = Idle
    /\ pipe = Idle
    /\ ma = Idle
    /\ store = Idle
    /\ \E fn \in Listings : listing = ListStart(fn)

listFrame == <<reconcileVars, fetchVars, schedVars, upd, pipe, ma, store>>

\* requests.get with the current offset, and the handling of its answer
Requested(ans) ==
    OnAnswer([listing EXCEPT !.requests = @ + 1], ans)

CanRequest == listing.pc = "request" /\ listing.requests < MaxRequests

\* a page was stored and the loop asks for the next one
ListNextPage ==
    /\ CanRequest
    /\ \E ans \in ListAnswers :
          /\ Requested(ans).pc = "request"
          /\ Requested(ans).offset > listing.offset
          /\ listing' = Requested(ans)
    /\ UNCHANGED listFrame

\* the request failed and the loop asks for the same page again
ListSamePage ==
    /\ CanRequest
    /\ \E ans \in ListAnswers :
          /\ Requested(ans).pc = "request"
          /\ Requested(ans).offset = listing.offset
          /\ listing' = Requested(ans)
    /\ UNCHANGED listFrame

\* the function returns what it has collected
ListReturns ==
    /\ CanRequest
    /\ \E ans \in ListAnswers :
          /\ Requested(ans).pc = "returned"
          /\ listing' = Requested(ans)
    /\ UNCHANGED listFrame

\* the exception of requests.get leaves the function
ListRaises ==
    /\ CanRequest
    /\ \E ans \in ListAnswers :
          /\ Requested(ans).pc = "raised"
          /\ listing' = Requested(ans)
    /\ UNCHANGED listFrame

NextList ==
    \/ ListNextPage
    \/ ListSamePage
    \/ ListReturns
    \/ ListRaises

SpecList == InitList /\ [][NextList]_vars

\* C24: get_all_existing_companies and get_all_companies issue at most 50
\* page requests of per_page = 100 entries and then stop asking, whatever
\* the server answers: after the 50th request the function has ended, and
\* after 50 pages it has returned.
C24_AtMostFiftyPageRequests ==
    listing.pc # "idle" /\ listing.fn \in {GetAllExisting, GetAllCompanies} =>
       /\ listing.requests <= SafetyOffset \div per_page
       /\ listing.offset <= per_page * listing.pages
       /\ listing.requests >= SafetyOffset \div per_page =>
             listing.pc \in {"returned", "raised"}
       /\ listing.pages >= SafetyOffset \div per_page =>
             listing.pc = "returned"

C24_Witness ==
    /\ listing.pc = "returned"
    /\ listing.fn = GetAllCompanies
    /\ listing.requests = 50
    /\ listing.pages = 50

\* C25: fetch_companies_from_wordpress terminates under every sequence of
\* server answers after a bounded number of page requests: MAX_PAGES pages,
\* each asked for at most MAX_RETRIES times.
C25_BoundedPageRequests ==
    listing.pc # "idle" /\ listing.fn = FetchCompanies =>
       listing.requests <= MAX_PAGES * MAX_RETRIES_AnalystEarnings

(* ------------------------------------------------------------------ *)
(* Part 5: the per-document updaters                                   *)
(*   update_financials.py main, update_analyst_earnings.py main        *)
(* Both scripts walk the JSON documents of their input directory and   *)
(* write each one to the post of its code in both locales.             *)
(* ------------------------------------------------------------------ *)

MaxFiles == 2

Updaters == {"update_financials", "update_analyst_earnings"}

\* the documents of the input directory, one per code (the file stem)
DocCodes == {AllCodes[i] : i \in 1..MaxFiles}

\* a document cannot be parsed, carries success = false, or is usable
DocStates == {"unreadable", "failed", "ok"}

ZeroCounts == [success_count |-> 0, skipped_count |-> 0, error_count |-> 0]

\* update_financials(post_id, data) / update_analyst_earnings(post_id, data):
\* one POST; True exactly for status 200, False for any other status and
\* for an exception
update_document(resp) == resp = 200

InitUpd ==
    /\ ReconcileIdle
    /\ FetchIdle
    /\ SchedIdle
    /\ listing = Idle
    /\ pipe = Idle
    /\ ma = Idle
    /\ store = Idle
    /\ \E script \in Updaters, dry \in BOOLEAN,
          docs \in [DocCodes -> DocStates],
          ja \in SUBSET DocCodes, en \in SUBSET DocCodes :
          upd = [pc |-> "loop", script |-> script, dry_run |-> dry,
                 json_files |-> docs, ja_companies |-> ja,
                 en_companies |-> en, todo |-> DocCodes,
                 counts |-> ZeroCounts,
                 counted |-> [c \in DocCodes |-> "none"],
                 sent |-> {}]

updFrame == <<reconcileVars, fetchVars, schedVars, listing, pipe, ma, store>>

\* the document the loop is at: documents are taken in the order of codes
UpdAt(c) ==
    /\ upd.pc = "loop"
    /\ c \in upd.todo
    /\ \A d \in upd.todo : \E i, j \in 1..Len(AllCodes) :
          AllCodes[i] = c /\ AllCodes[j] = d /\ i <= j

\* one pass of the loop body ends: the counter key is bumped, the requests
\* are recorded and the loop moves on
UpdCount(c, key, posts) ==
    upd' = [upd EXCEPT !.todo = @ \ {c},
                       !.counts[key] = @ + 1,
                       !.counted[c] = key,
                       !.sent = @ \cup posts]

\* json.load raises: error_count, continue
UpdReadError(c) ==
    /\ UpdAt(c)
    /\ upd.json_files[c] = "unreadable"
    /\ UpdCount(c, "error_count", {})
    /\ UNCHANGED updFrame

\* not data.get("success"): skipped_count, continue
UpdSkipFailedData(c) ==
    /\ UpdAt(c)
    /\ upd.json_files[c] = "failed"
    /\ UpdCount(c, "skipped_count", {})
    /\ UNCHANGED updFrame

\* code not in ja_companies: skipped_count, continue
UpdSkipUnregistered(c) ==
    /\ UpdAt(c)
    /\ upd.json_files[c] = "ok"
    /\ c \notin upd.ja_companies
    /\ UpdCount(c, "skipped_count", {})
    /\ UNCHANGED updFrame

\* args.dry_run: success_count without any request, continue
UpdDryRun(c) ==
    /\ UpdAt(c)
    /\ upd.json_files[c] = "ok"
    /\ c \in upd.ja_companies
    /\ upd.dry_run
    /\ UpdCount(c, "success_count", {})
    /\ UNCHANGED updFrame

Post(c, locale, resp) == [code |-> c, locale |-> locale, status |-> resp]

\* the counter the update branch bumps: the translation's result is only
\* printed, success_count += 1 follows whenever the primary update succeeded
UpdateKey(ok_ja, has_en, ok_en) ==
    IF ok_ja THEN "success_count" ELSE "error_count"

\* the update branch: the primary post first, the translation only after
\* the primary update succeeded and only when the code is in en_companies
UpdUpdate(c) ==
    /\ UpdAt(c)
    /\ upd.json_files[c] = "ok"
    /\ c \in upd.ja_companies
    /\ ~upd.dry_run
    /\ \E resp_ja \in Responses, resp_en \in Responses :
          LET ok_ja == update_document(resp_ja)
              has_en == c \in upd.en_companies
              ok_en == update_document(resp_en)
          IN  UpdCount(c, UpdateKey(ok_ja, has_en, ok_en),
                       {Post(c, "ja", resp_ja)} \cup
                       (IF ok_ja /\ has_en THEN {Post(c, "en", resp_en)}
                                           ELSE {}))
    /\ UNCHANGED updFrame

\* the loop is over: the summary is printed
UpdSummary ==
    /\ upd.pc = "loop"
    /\ upd.todo = {}
    /\ upd' = [upd EXCEPT !.pc = "done"]
    /\ UNCHANGED updFrame

NextUpd ==
    \/ \E c \in DocCodes : UpdReadError(c)
    \/ \E c \in DocCodes : UpdSkipFailedData(c)
    \/ \E c \in DocCodes : UpdSkipUnregistered(c)
    \/ \E c \in DocCodes : UpdDryRun(c)
    \/ \E c \in DocCodes : UpdUpdate(c)
    \/ UpdSummary

SpecUpd == InitUpd /\ [][NextUpd]_vars

\* C22: in update_financials.main and update_analyst_earnings.main a code
\* with a post in both locales is counted as a success only if the updates
\* of both locales succeeded; a failed translation update is not counted
\* as a success.
C22_SuccessOnlyIfBothLocalesSucceed ==
    \A c \in DocCodes :
       (/\ upd.pc # "idle"
        /\ ~upd.dry_run
        /\ upd.counted[c] = "success_count"
        /\ c \in upd.ja_companies
        /\ c \in upd.en_companies) =>
          /\ Post(c, "ja", 200) \in upd.sent
          /\ Post(c, "en", 200) \in upd.sent

(* ------------------------------------------------------------------ *)
(* Part 1, continued: a run over two registry rows                     *)
(* ------------------------------------------------------------------ *)

PairCodes == <<AllCodes[1], AllCodes[2]>>

\* a run without --dry-run, --skip and --limit over a registry of two rows
InitPair ==
    /\ \E d \in [DOMAIN PairCodes -> RowData] :
          rows = [i \in DOMAIN PairCodes |-> MkRow(PairCodes[i], d[i])]
    /\ \E S \in SUBSET {rows[i].code : i \in 1..Len(rows)} :
         errors_csv \in {[exists |-> TRUE, codes |-> S],
                         [exists |-> FALSE, codes |-> {}]}
    /\ dry_run = FALSE
    /\ auto_unpublish \in BOOLEAN
    /\ update_only \in BOOLEAN
    /\ skip = 0
    /\ limit = NoLimit
    /\ \E S \in SUBSET Codes : wp = {LegacyPost(c) : c \in S}
    /\ nextId = FirstNewId
    /\ existing_companies = EmptyDict
    /\ listing_break = NoBreak
    /\ df = <<>>
    /\ error_codes = {}
    /\ idx = 1
    /\ stats = ZeroStats
    /\ pc = "main"
    /\ runNo = 1
    /\ acts = [c \in Codes |-> <<>>]
    /\ counted = [c \in Codes |-> 0]
    /\ requests = {}
    /\ prevCreated = {}
    /\ FetchIdle
    /\ SchedIdle
    /\ LaterIdle

SpecPair == InitPair /\ [][Next]_vars

\* some condition of the chain holds for the row
Classified(row) == Cond1(row) \/ Cond2(row) \/ Cond3(row) \/ Cond4(row)

FailedCodes ==
    {c \in Codes : \E i \in 1..Len(acts[c]) : acts[c][i].counter = "failed"}

\* C23: a destination call that fails (create, update or unpublish answered
\* with a non-success status or an exception) increments failed for that
\* identifier only and does not abort the run: every later row is still
\* classified and acted on, and the posts written before stay written.
C23_FailureCountedRunContinues ==
    /\ stats.failed = Cardinality(FailedCodes)
    /\ \A c \in Codes : \A i \in 1..Len(acts[c]) :
          /\ ~acts[c][i].ok <=> acts[c][i].counter = "failed"
          /\ (acts[c][i].tag = "Create" /\ acts[c][i].ok /\ ~dry_run) =>
                \E p \in wp : p.slug = c /\ p.id >= FirstNewId
          /\ (acts[c][i].tag = "Unpublish" /\ acts[c][i].ok /\ ~dry_run) =>
                \E p \in wp : p.id = acts[c][i].id /\ p.status = "draft"
    /\ pc = "done" =>
          /\ idx = Len(df) + 1
          /\ \A i \in 1..Len(df) :
                Classified(df[i]) => Len(acts[df[i].code]) = 1

C23_Witness ==
    /\ pc = "done"
    /\ Len(df) = 2
    /\ df[1].code \in FailedCodes
    /\ stats.failed = 1
    /\ Len(acts[df[2].code]) = 1
    /\ acts[df[2].code][1].ok
    /\ acts[df[2].code][1].tag \in {"Create", "Update", "Unpublish"}

(* ------------------------------------------------------------------ *)
(* Part 6: the fetch stage and the merge stage over the registry       *)
(*   2_fetch_yfinance_data.py main, 3_merge_data.py main               *)
(* Both stages read the registry CSV; the merge stage reads the CSV    *)
(* of fetch results as well.                                           *)
(* ------------------------------------------------------------------ *)

MaxReg == 2

\* the columns the registry CSV can have
RegistryColumns == {"code", "company_name"}

\* the registry holds the first n codes; one further code is outside it
Registries == {[i \in 1..n |-> AllCodes[i]] : n \in 1..MaxReg}
OutsideCode == AllCodes[MaxReg + 1]

\* a row of the fetch results, with the two fields the later stages test
FetchRow(c, status, currentPrice, marketCap) ==
    [code |-> c, status |-> status,
     currentPrice |-> currentPrice, marketCap |-> marketCap]

\* what the provider's info holds for a field: nothing, zero or a positive
\* number; raised: the last attempt ended in an exception, and the fields
\* are those of the info that was available
ProviderValues == {NaN, 0, 1}
InfoAnswers ==
    [raised : BOOLEAN, currentPrice : ProviderValues,
     marketCap : ProviderValues]

\* a validation that accepts every value that is present
has_valid_AcceptsZero(v) == v # NaN

\* has_valid_price = current_price and current_price > 0 (and likewise
\* has_valid_market_cap)
has_valid(v) == v # NaN /\ v # 0 /\ v > 0

\* fetch_stock_data: the result row for what the provider gave
fetch_stock_data(c, info) ==
    IF info.raised
    THEN FetchRow(c, "error", info.currentPrice, info.marketCap)
    ELSE IF ~has_valid(info.currentPrice) /\ ~has_valid(info.marketCap)
         THEN FetchRow(c, "error", info.currentPrice, info.marketCap)
         ELSE FetchRow(c, "success", info.currentPrice, info.marketCap)

FetchResults(c) == {fetch_stock_data(c, info) : info \in InfoAnswers}

Range(seq) == {seq[i] : i \in DOMAIN seq}

\* the filter of load_yfinance_data left out
load_yfinance_data_KeepsFailed(yf) == yf

\* load_yfinance_data: df = df[df['status'] == 'success']
load_yfinance_data(yf) == {r \in yf : r.status = "success"}

\* merge_data: yahoo_df.merge(yfinance_df, on='code', how='left'); one
\* record per registry row, with the fields of the fetch row of the same
\* code when there is one (fetch rows have distinct codes) and NaN otherwise
merge_data(yahoo, yfinance) ==
    [i \in DOMAIN yahoo |->
        LET m == {r \in yfinance : r.code = yahoo[i]}
        IN  IF m = {}
            THEN MkRow(yahoo[i], <<NaN, NaN>>)
            ELSE LET r == CHOOSE q \in m : TRUE
                 IN  MkRow(yahoo[i], <<r.currentPrice, r.marketCap>>)]

InitPipe ==
    /\ ReconcileIdle
    /\ FetchIdle
    /\ SchedIdle
    /\ listing = Idle
    /\ upd = Idle
    /\ ma = Idle
    /\ store = Idle
    /\ \E cols \in SUBSET RegistryColumns, yahoo \in Registries,
          extra \in SUBSET FetchResults(OutsideCode) :
          /\ Cardinality(extra) <= 1
          /\ pipe = [pc |-> "fetch", columns |-> cols, registry |-> yahoo,
                     extra |-> extra, calls |-> {}, results |-> {},
                     yfinance_csv |-> {}, written |-> FALSE,
                     errors |-> [exists |-> FALSE, codes |-> {}],
                     integrated |-> <<>>]

pipeFrame == <<reconcileVars, fetchVars, schedVars, listing, upd, ma, store>>

\* 2_fetch: df_input['code'] raises KeyError, the stage dies
FetchAbortsNoCode ==
    /\ pipe.pc = "fetch"
    /\ "code" \notin pipe.columns
    /\ pipe' = [pipe EXCEPT !.pc = "aborted"]
    /\ UNCHANGED pipeFrame

\* 2_fetch: stock_codes = df_input['code'].tolist()
FetchStarts ==
    /\ pipe.pc = "fetch"
    /\ "code" \in pipe.columns
    /\ pipe' = [pipe EXCEPT !.pc = "fetching"]
    /\ UNCHANGED pipeFrame

\* 2_fetch: process_company(code) calls the provider and gives a result row
FetchCompany(c) ==
    /\ pipe.pc = "fetching"
    /\ c \in Range(pipe.registry) \ pipe.calls
    /\ \E r \in FetchResults(c) :
          pipe' = [pipe EXCEPT !.calls = @ \cup {c},
                               !.results = @ \cup {r}]
    /\ UNCHANGED pipeFrame

\* df_errors = df_results[df_results["status"] != "success"], written
\* if len(df_errors) > 0
ErrorsFile(df_results) ==
    LET df_errors == {r \in df_results : r.status # "success"}
    IN  [exists |-> df_errors # {},
         codes |-> {r.code : r \in df_errors}]

\* 2_fetch: the results are written; the file the merge stage reads may
\* also hold a row of a code that is not in the registry
FetchSaves ==
    /\ pipe.pc = "fetching"
    /\ pipe.calls = Range(pipe.registry)
    /\ pipe' = [pipe EXCEPT !.pc = "merge",
                            !.yfinance_csv = pipe.results \cup pipe.extra,
                            !.errors = ErrorsFile(pipe.results)]
    /\ UNCHANGED pipeFrame

\* 3_merge load_yahoo_jp_data: a required column is missing, sys.exit(1)
MergeAbortsSchema ==
    /\ pipe.pc = "merge"
    /\ ~(RegistryColumns \subseteq pipe.columns)
    /\ pipe' = [pipe EXCEPT !.pc = "aborted"]
    /\ UNCHANGED pipeFrame

\* 3_merge main: load both inputs, merge, save the integrated dataset
MergeWrites ==
    /\ pipe.pc = "merge"
    /\ RegistryColumns \subseteq pipe.columns
    /\ pipe' = [pipe EXCEPT
                   !.pc = "done",
                   !.written = TRUE,
                   !.integrated =
                       merge_data(pipe.registry,
                                  load_yfinance_data(pipe.yfinance_csv))]
    /\ UNCHANGED pipeFrame

NextPipe ==
    \/ FetchAbortsNoCode
    \/ FetchStarts
    \/ \E c \in Range(AllCodes) : FetchCompany(c)
    \/ FetchSaves
    \/ MergeAbortsSchema
    \/ MergeWrites

SpecPipe == InitPipe /\ [][NextPipe]_vars

\* C26: if a required registry column (code or company_name) is absent, the
\* pipeline aborts before any fetch work begins: no provider call is made
\* and no integrated dataset is written.
C26_SchemaMissingAbortsBeforeFetch ==
    (pipe.pc # "idle" /\ ~(RegistryColumns \subseteq pipe.columns)) =>
       /\ pipe.calls = {}
       /\ ~pipe.written

\* C27: the integrated dataset has a record only for identifiers of the
\* registry: every registry identifier yields a record, a fetch result of an
\* identifier outside the registry yields none, a registry identifier whose
\* fetch status is not success gets a record without fetch fields (also
\* when the failed result carries partial data), and one whose fetch
\* succeeded gets the fields of its result.
C27_IntegratedFollowsRegistry ==
    pipe.pc = "done" =>
       /\ Len(pipe.integrated) = Len(pipe.registry)
       /\ \A i \in DOMAIN pipe.registry :
             /\ pipe.integrated[i].code = pipe.registry[i]
             /\ \A r \in pipe.yfinance_csv :
                   r.code = pipe.registry[i] =>
                      pipe.integrated[i] =
                         (IF r.status = "success"
                          THEN MkRow(r.code, <<r.currentPrice, r.marketCap>>)
                          ELSE MkRow(r.code, <<NaN, NaN>>))
       /\ \A r \in pipe.yfinance_csv :
             r.code \notin Range(pipe.registry) =>
                \A i \in DOMAIN pipe.integrated :
                   pipe.integrated[i].code # r.code

C27_Witness ==
    /\ pipe.pc = "done"
    /\ FetchRow(OutsideCode, "success", 1, 1) \in pipe.yfinance_csv
    /\ FetchRow(AllCodes[1], "error", 1, 1) \in pipe.yfinance_csv
    /\ FetchRow(AllCodes[2], "success", 1, 1) \in pipe.yfinance_csv
    /\ pipe.integrated[1] = MkRow(AllCodes[1], <<NaN, NaN>>)
    /\ pipe.integrated[2] = MkRow(AllCodes[2], <<1, 1>>)

(* ------------------------------------------------------------------ *)
(* Part 7: the moving-average deviation                                *)
(*   fetch_financials.py FinancialDataFetcher._calculate_ma_deviation  *)
(* Prices are positive integers; ma_value and deviation are kept in    *)
(* hundredths, as round(x, 2) leaves them.                             *)
(* ------------------------------------------------------------------ *)

MaxRecent == 3

Periods == {5, 25, 75, 200}

Prices == {98, 100, 102}

\* info has neither currentPrice nor regularMarketPrice (or has 0)
NoPrice == 0
CurrentPrices == {NoPrice, 99, 100, 101}

\* a series of closing prices: n times the price p, then the prices of
\* recent; lengths are chosen around every period
OlderLens == {0} \cup {q - MaxRecent : q \in Periods}
RecentSeqs == UNION {[1..n -> Prices] : n \in 0..MaxRecent}
Histories == [n : OlderLens, p : Prices, recent : RecentSeqs]

\* len(close_prices)
Samples(hist) == hist.n + Len(hist.recent)

RECURSIVE SumLast(_, _)
SumLast(seq, k) ==
    IF k = 0 THEN 0 ELSE seq[Len(seq)] + SumLast(SubSeq(seq, 1, Len(seq) - 1), k - 1)

\* close_prices.tail(period).sum(), for a series of at least period samples
TailSum(hist, period) ==
    IF period <= Len(hist.recent)
    THEN SumLast(hist.recent, period)
    ELSE SumLast(hist.recent, Len(hist.recent))
         + (period - Len(hist.recent)) * hist.p

\* num / den to the nearest integer, for den > 0
RoundDiv(num, den) ==
    IF num >= 0 THEN (2 * num + den) \div (2 * den)
                ELSE -((2 * (-num) + den) \div (2 * den))

neutral == [ma_value |-> 0, deviation |-> 0, trend |-> "neutral"]

\* a window is computed only when the series is long enough for all windows
EnoughSamples_AllWindows(n, period) == \A q \in Periods : n >= q

\* if len(close_prices) >= period
EnoughSamples(n, period) == n >= period

\* the trend is up also at deviation 0
Trend_UpAtZero(deviation) == IF deviation >= 0 THEN "up" ELSE "down"

\* "up" if deviation > 0 else "down"; deviation is given by its numerator,
\* the denominator being positive
Trend(deviation) == IF deviation > 0 THEN "up" ELSE "down"

\* calc(period): ma = tail(period).mean() = sum / period,
\* deviation = ((current_price - ma) / ma) * 100
\*           = 100 * (current_price * period - sum) / sum
calc(hist, current_price, period) ==
    IF EnoughSamples(Samples(hist), period)
    THEN LET sum == TailSum(hist, period)
             dev == current_price * period - sum
         IN  [ma_value |-> RoundDiv(100 * sum, period),
              deviation |-> RoundDiv(10000 * dev, sum),
              trend |-> Trend(dev)]
    ELSE neutral

\* _empty_ma_deviation
empty_ma_deviation == [q \in Periods |-> neutral]

\* _calculate_ma_deviation(hist) with info's current price
calculate_ma_deviation(hist, current_price) ==
    IF Samples(hist) = 0 THEN empty_ma_deviation
    ELSE IF current_price = NoPrice THEN empty_ma_deviation
    ELSE [q \in Periods |-> calc(hist, current_price, q)]

InitMA ==
    /\ ReconcileIdle
    /\ FetchIdle
    /\ SchedIdle
    /\ listing = Idle
    /\ upd = Idle
    /\ pipe = Idle
    /\ store = Idle
    /\ \E hist \in Histories, current_price \in CurrentPrices :
          ma = [pc |-> "call", hist |-> hist,
                current_price |-> current_price,
                result |-> empty_ma_deviation]

Calculate ==
    /\ ma.pc = "call"
    /\ ma' = [ma EXCEPT
                !.pc = "returned",
                !.result = calculate_ma_deviation(ma.hist, ma.current_price)]
    /\ UNCHANGED <<reconcileVars, fetchVars, schedVars, listing, upd, pipe,
                   store>>

NextMA == Calculate

SpecMA == InitMA /\ [][NextMA]_vars

\* the window of the period has its samples and its result carries the
\* mean of the last period prices
Computed(period) ==
    /\ ma.result[period].trend \in {"up", "down"}
    /\ ma.result[period].ma_value =
          RoundDiv(100 * TailSum(ma.hist, period), period)

\* C28 as stated: for every period p in {5, 25, 75, 200}, with fewer than p
\* samples the result for p is exactly the neutral default; the windows are
\* decided independently, so a window with enough samples is computed.
C28_WindowsIndependent ==
    ma.pc = "returned" =>
       \A q \in Periods :
          IF Samples(ma.hist) < q THEN ma.result[q] = neutral
                                  ELSE Computed(q)

\* C28, amended: with fewer than p samples the result for p is exactly the
\* neutral default; when a current price is available the windows are
\* decided independently, so a window with enough samples is computed
\* whatever the other windows lack; without a current price every window
\* is the neutral default.
C28_WindowsIndependentGivenPrice ==
    ma.pc = "returned" =>
       \A q \in Periods :
          IF Samples(ma.hist) < q \/ ma.current_price = NoPrice
          THEN ma.result[q] = neutral
          ELSE Computed(q)

C28_Witness ==
    /\ ma.pc = "returned"
    /\ ma.current_price # NoPrice
    /\ Samples(ma.hist) = 5
    /\ Computed(5)
    /\ ma.result[25] = neutral

\* the current price is strictly greater than the mean of the last period
\* prices
AboveMean(period) ==
    ma.current_price * period > TailSum(ma.hist, period)

\* C29 as stated: with at least p samples the result for p has trend up iff
\* the current price is strictly greater than the mean of the last p prices
\* and trend down otherwise; it is never neutral.
C29_TrendBySignOfDeviation ==
    ma.pc = "returned" =>
       \A q \in Periods :
          Samples(ma.hist) >= q =>
             ma.result[q].trend = (IF AboveMean(q) THEN "up" ELSE "down")

\* C29, amended: with at least p samples and a current price available,
\* the result for p has trend up iff the current price is strictly greater
\* than the mean of the last p prices and trend down otherwise, also at
\* deviation 0, never neutral; without a current price the trend is neutral.
C29_TrendBySignOfDeviationGivenPrice ==
    ma.pc = "returned" =>
       \A q \in Periods :
          Samples(ma.hist) >= q =>
             ma.result[q].trend =
                (IF ma.current_price = NoPrice THEN "neutral"
                 ELSE IF AboveMean(q) THEN "up" ELSE "down")

C29_Witness ==
    /\ ma.pc = "returned"
    /\ Samples(ma.hist) = 200
    /\ ma.current_price = 100
    /\ TailSum(ma.hist, 5) = 100 * 5
    /\ ma.result[5].trend = "down"
    /\ ma.result[5].deviation = 0
    /\ ma.result[200].trend = "up"
    /\ ma.result[200].deviation > 0

(* ------------------------------------------------------------------ *)
(* Part 1, continued: the snapshot during process_companies            *)
(* ------------------------------------------------------------------ *)

\* C30: the destination snapshot is captured once before the first action
\* and is neither refreshed nor modified during process_companies: every
\* step of the run after main's capture leaves it as it was, also the steps
\* that create or unpublish a post.
C30_SnapshotNeverRefreshed ==
    [][(pc \in {"read", "loop"}) =>
          (existing_companies' = existing_companies)]_vars

\* a post was created for a code by this run and the snapshot, still used
\* for the rows that follow, does not hold the code
C30_Witness ==
    /\ pc = "loop"
    /\ idx <= Len(df)
    /\ \E c \in Codes :
          /\ \E i \in 1..Len(acts[c]) :
                acts[c][i].tag = "Create" /\ acts[c][i].ok
          /\ \E p \in wp : p.slug = c /\ p.id >= FirstNewId
          /\ Ticker(c) \notin DOMAIN existing_companies

(* ------------------------------------------------------------------ *)
(* Part 8: the documents written by a fetch run                        *)
(*   fetch_stock_history.py, fetch_analyst_earnings.py                 *)
(*       process_company, save_to_json                                 *)
(*   fetch_financials.py main, save_to_json                            *)
(* One JSON document per code, <code>.json in the output directory.    *)
(* ------------------------------------------------------------------ *)

DocumentFetchers == {StockHistory, AnalystEarnings, Financials}

\* what the output directory holds for a code before the run
StoredBefore == {"absent", "old"}

\* fetch_stock_history returns None on failure; the fetch methods of the
\* two classes return a dict with success = False
NoData == "None"
FailedData == "success: False"
FetchedData == "success: True"

FailureOf(script) == IF script = StockHistory THEN NoData ELSE FailedData

\* open(output_file, 'w') and json.dump: both work, open raises (the file
\* is untouched), or json.dump raises after open has truncated the file
WriteOutcomes == {"ok", "open raises", "dump raises"}

\* save_to_json that writes whatever it is given
save_to_json_WritesNone(doc, data, write) ==
    CASE write = "ok" -> [ret |-> TRUE, doc |-> data]
      [] write = "open raises" -> [ret |-> FALSE, doc |-> doc]
      [] write = "dump raises" -> [ret |-> FALSE, doc |-> "truncated"]

\* save_to_json(data, code): False without touching the file when data is
\* None; otherwise the file of the code is rewritten, False on an exception
save_to_json(doc, data, write) ==
    IF data = NoData THEN [ret |-> FALSE, doc |-> doc]
    ELSE CASE write = "ok" -> [ret |-> TRUE, doc |-> data]
           [] write = "open raises" -> [ret |-> FALSE, doc |-> doc]
           [] write = "dump raises" -> [ret |-> FALSE, doc |-> "truncated"]

\* the saving part of process_company (of the loop body in fetch_financials):
\* fetch_stock_history passes its data straight to save_to_json, the two
\* others call it only if data.get("success")
SaveResult(script, doc, data, write) ==
    IF script = StockHistory THEN save_to_json(doc, data, write)
    ELSE IF data = FetchedData THEN save_to_json(doc, data, write)
    ELSE [ret |-> FALSE, doc |-> doc]

InitStore ==
    /\ ReconcileIdle
    /\ FetchIdle
    /\ SchedIdle
    /\ listing = Idle
    /\ upd = Idle
    /\ pipe = Idle
    /\ ma = Idle
    /\ \E script \in DocumentFetchers, before \in [DocCodes -> StoredBefore] :
          store = [pc |-> "run", script |-> script, before |-> before,
                   docs |-> before, todo |-> DocCodes,
                   fetched |-> [c \in DocCodes |-> "none"],
                   success |-> [c \in DocCodes |-> FALSE]]

storeFrame == <<reconcileVars, fetchVars, schedVars, listing, upd, pipe, ma>>

\* process_company(c) with the given fetch result and file-system behaviour
Processed(c, data, write) ==
    LET r == SaveResult(store.script, store.docs[c], data, write)
    IN  [store EXCEPT !.todo = @ \ {c},
                      !.docs[c] = r.doc,
                      !.fetched[c] = data,
                      !.success[c] = r.ret]

\* the fetch of the code failed
ProcessFetchFailed(c) ==
    /\ store.pc = "run"
    /\ c \in store.todo
    /\ \E write \in WriteOutcomes :
          store' = Processed(c, FailureOf(store.script), write)
    /\ UNCHANGED storeFrame

\* the fetch succeeded and the document was written
ProcessSaved(c) ==
    /\ store.pc = "run"
    /\ c \in store.todo
    /\ store' = Processed(c, FetchedData, "ok")
    /\ UNCHANGED storeFrame

\* the fetch succeeded and the write raised
ProcessSaveFails(c) ==
    /\ store.pc = "run"
    /\ c \in store.todo
    /\ \E write \in WriteOutcomes \ {"ok"} :
          store' = Processed(c, FetchedData, write)
    /\ UNCHANGED storeFrame

\* all codes are processed
StoreDone ==
    /\ store.pc = "run"
    /\ store.todo = {}
    /\ store' = [store EXCEPT !.pc = "done"]
    /\ UNCHANGED storeFrame

NextStore ==
    \/ \E c \in DocCodes : ProcessFetchFailed(c)
    \/ \E c \in DocCodes : ProcessSaved(c)
    \/ \E c \in DocCodes : ProcessSaveFails(c)
    \/ StoreDone

SpecStore == InitStore /\ [][NextStore]_vars

\* C31: a failed fetch for a code writes no document: as long as no fetch
\* of a code has succeeded, the stored document of the code is the one from
\* before the run (whatever happened to the other codes), a failed fetch is
\* never counted as saved, and a successful fetch that is saved leaves the
\* fetched data in the document of its own code.
C31_FailedFetchWritesNothing ==
    store.pc # "idle" =>
       \A c \in DocCodes :
          /\ store.fetched[c] # FetchedData =>
                /\ store.docs[c] = store.before[c]
                /\ ~store.success[c]
          /\ store.success[c] => store.docs[c] = FetchedData

C31_Witness ==
    /\ store.pc = "done"
    /\ store.script = StockHistory
    /\ store.before[AllCodes[1]] = "old"
    /\ store.fetched[AllCodes[1]] = NoData
    /\ store.docs[AllCodes[1]] = "old"
    /\ store.success[AllCodes[2]]
    /\ store.docs[AllCodes[2]] = FetchedData

(* ------------------------------------------------------------------ *)
(* Part 3, continued: the lock, the order of results, the snapshots    *)
(* ------------------------------------------------------------------ *)

\* C32: the counter lock is held only for the counter increments: a worker
\* that holds it is inside the "with lock" block, never in its fetch (the
\* provider calls, the retry delays and the document write), so a fetch in
\* progress can always return and a free worker can always start the next
\* queued fetch, whoever holds the lock.
C32_LockOnlyAroundIncrements ==
    \A p \in Positions :
       /\ lock = p => task[p] \in InLock
       /\ task[p] = "fetch" => ENABLED FetchReturns(p)
       /\ (/\ task[p] = "queued"
           /\ HasFreeWorker
           /\ \A q \in Positions : task[q] = "queued" => p <= q)
             => ENABLED WorkerStart(p)

\* a worker holds the lock while an earlier worker of the batch is still in
\* its fetch
C32_Witness ==
    \E p, q \in Positions :
       /\ p < q
       /\ task[p] = "fetch"
       /\ lock = q
       /\ task[q] = "store_kind"

\* input position of the identifier of the k-th recorded result
PositionOf(k) == CHOOSE p \in Positions : stock_codes[p] = results[k].code

\* C33: across batches the processing order is the input order: in results
\* every result of an identifier of batch i precedes every result of an
\* identifier of batch j for i < j, and batch i holds exactly the
\* identifiers at input positions (i-1)*B+1 .. min(i*B, M).
C33_ResultsInBatchOrder ==
    /\ \A k1, k2 \in 1..Len(results) :
          BatchOf(PositionOf(k1)) < BatchOf(PositionOf(k2)) => k1 < k2
    /\ total_batches = CeilDiv(M, batch_size)
    /\ \A i \in 1..total_batches :
          batches[i] = ((i - 1) * batch_size + 1)..Min(i * batch_size, M)

\* the two results of the first batch were recorded against input order,
\* the result of the second batch after both
C33_Witness ==
    /\ SchedDone
    /\ batch_size = 2
    /\ M = 3
    /\ results[1].code = stock_codes[2]
    /\ results[2].code = stock_codes[1]
    /\ results[3].code = stock_codes[3]

(* ------------------------------------------------------------------ *)
(* Part 2, continued: the retry delays of one fetch call               *)
(* ------------------------------------------------------------------ *)

\* C34: within one fetch call a retry delay is taken after every failed
\* attempt that is followed by another attempt, and none after the final
\* attempt or after an attempt that succeeded or failed validation: before
\* each attempt as many delays as attempts have been taken and the attempt
\* is within the retry bound, and a call that has returned after k
\* attempts has taken exactly k - 1 delays.
C34_OneDelayBetweenAttempts ==
    /\ fpc = "try" => retry_sleeps = Calls /\ InRange(engine, attempt)
    /\ fpc = "sleep" =>
          /\ retry_sleeps = Calls - 1
          /\ TryBlock(engine, LastAnswer).kind = "raise"
          /\ Calls < MAX_RETRIES(engine)
    /\ Returned => retry_sleeps = Calls - 1

\* fetch_stock_data: a failed attempt, one delay, then an attempt that
\* failed validation and returned at once
C34_Witness ==
    /\ Returned
    /\ engine = StockData
    /\ Calls = 2
    /\ retry_sleeps = 1
    /\ outcomes[1] \in ProviderErrors
    /\ ret.reason = ValidationMessage

\* C36: every progress snapshot printed by the scheduler is consistent under
\* every worker interleaving: its success and error counts sum to its
\* completed count, and the completed counts of consecutive snapshots are
\* strictly increasing.
C36_SnapshotsConsistent ==
    /\ \A i \in 1..Len(progress.snapshots) :
          progress.snapshots[i].success + progress.snapshots[i].error
             = progress.snapshots[i].total
    /\ \A i \in 1..(Len(progress.snapshots) - 1) :
          progress.snapshots[i].total < progress.snapshots[i + 1].total

\* C37: between two consecutive cool-downs (and before the first, and after
\* the last) the scheduler sends at most BATCH_SIZE * MAX_RETRIES provider
\* requests, for every list length and every pattern of fetch failures.
C37_RequestsBetweenCoolDownsBounded ==
    provider_calls <= batch_size * MAX_RETRIES(StockData)

\* a full batch in which every fetch used all its attempts, after a cool-down
C37_Witness ==
    /\ cooldowns >= 1
    /\ batch_size >= 2
    /\ provider_calls = batch_size * MAX_RETRIES(StockData)

(* ------------------------------------------------------------------ *)
(* Part 1, continued: unpublish, partial snapshots, skip and limit     *)
(* ------------------------------------------------------------------ *)

\* an Unpublish was decided for the code, or a status request sent for it
UnpublishIssued(c) ==
    \/ \E i \in 1..Len(acts[c]) : acts[c][i].tag = "Unpublish"
    \/ \E r \in requests : r.kind = "set_status" /\ r.code = c

\* C35: Unpublish is issued for an identifier only if it has no fetch data
\* in the integrated dataset, is in the error list, is in the destination
\* snapshot and auto_unpublish is on: under no flag combination is an
\* identifier with a successful fetch unpublished.
C35_UnpublishOnlyFailedListedPresent ==
    \A c \in Codes :
       UnpublishIssued(c) =>
          /\ auto_unpublish
          /\ InErrorList(c)
          /\ InSnapshot(c)
          /\ \A i \in 1..Len(df) : df[i].code = c => ~FetchSucceeded(df[i])

\* a post has been set to draft by the run
C35_Witness ==
    \E c \in Codes :
       /\ \E i \in 1..Len(acts[c]) :
             acts[c][i].tag = "Unpublish" /\ acts[c][i].ok
       /\ [kind |-> "set_status", code |-> c, target |-> JaId(c)] \in requests
       /\ \E p \in wp : p.id = JaId(c) /\ p.status = "draft"
\* C38: when a listing page request is answered with a non-200 status,
\* get_all_existing_companies stops paging and returns the entries collected
\* so far without signalling an error, and the run goes on to classify with
\* that partial snapshot: every identifier on a page not fetched is treated
\* as absent from the destination.
C38_Non200GivesPartialSnapshot ==
    listing_break.non200 # 0 =>
       /\ pc \in {"read", "loop", "done"}
       /\ \A q \in wp :
             (q.id < FirstNewId /\ Head(q.stock_code) \notin listing_break.unfetched)
                => /\ InSnapshot(Head(q.stock_code))
                   /\ existing_companies[Ticker(Head(q.stock_code))].id = q.id
       /\ \A c \in listing_break.unfetched :
             /\ ~InSnapshot(c)
             /\ \A i \in 1..Len(acts[c]) :
                   acts[c][i].tag \in {"Create", "Skip", "None"}

\* the second listing request failed: the post of the first page is in the
\* snapshot and updated, the post of the second page is created once more
C38_Witness ==
    /\ listing_break.non200 = 2
    /\ pc = "done"
    /\ \E c \in listing_break.unfetched, d \in Codes :
          /\ d # c
          /\ InSnapshot(d)
          /\ \E i \in 1..Len(acts[d]) : acts[d][i].tag = "Update"
          /\ \E q \in wp : q.id = JaId(c)
          /\ \E i \in 1..Len(acts[c]) :
                acts[c][i].tag = "Create" /\ acts[c][i].ok
\* the code is in the error list the fetch run wrote
InFetchErrors(c) == pipe.errors.exists /\ c \in pipe.errors.codes

\* C39: for the outputs of one fetch run passed through the merge, every
\* fetched registry identifier satisfies exactly one of: it has fetch data
\* in the integrated dataset (current price or market capitalisation
\* present), or it is in the error list; a result with status success has at
\* least one of the two values positive, and a result with any other status
\* never contributes them.
C39_FetchDataOrErrorListExclusive ==
    /\ \A r \in pipe.results :
          r.status = "success" =>
             \/ (r.currentPrice # NaN /\ r.currentPrice > 0)
             \/ (r.marketCap # NaN /\ r.marketCap > 0)
    /\ pipe.pc = "done" =>
          \A i \in DOMAIN pipe.integrated :
             LET row == pipe.integrated[i]
             IN  /\ has_yfinance_data(row) # InFetchErrors(row.code)
                 /\ \A r \in pipe.results :
                       (r.code = row.code /\ r.status # "success")
                          => ~has_yfinance_data(row)

\* one code succeeded on its market capitalisation alone, the other failed
\* with a price in its partial data
C39_Witness ==
    /\ pipe.pc = "done"
    /\ FetchRow(AllCodes[1], "success", NaN, 1) \in pipe.results
    /\ FetchRow(AllCodes[2], "error", 1, NaN) \in pipe.results
    /\ has_yfinance_data(pipe.integrated[1])
    /\ ~InFetchErrors(AllCodes[1])
    /\ ~has_yfinance_data(pipe.integrated[2])
    /\ InFetchErrors(AllCodes[2])
\* C40: with skip = s >= 0 and limit = l >= 0, process_companies processes
\* exactly the identifiers at input positions s .. s+l-1 (fewer when the
\* input ends earlier), in input order, and no others; in particular at
\* most l identifiers are processed.
C40_SkipLimitWindow ==
    (pc \in {"loop", "done"} /\ limit # NoLimit) =>
       /\ Len(df) = Max(0, Min(limit, Len(rows) - skip))
       /\ \A i \in 1..Len(df) : df[i] = rows[skip + i]
       /\ idx - 1 <= limit
       /\ \A c \in Codes :
             acts[c] # <<>> =>
                \E j \in (skip + 1)..Min(skip + limit, Len(rows)) :
                   rows[j].code = c
====
